---------------------------- MODULE Spec2Model ----------------------------
(***************************************************************************)
(* Verification model of the RAINBOHz audio rendering core:                *)
(* PhysicalEnvelopeGenerator::generate() (trim, coordinate conversion,     *)
(* fused sweep, phase compensation, paxel grid slicing) followed by        *)
(* PaxelGenerator::renderAudio().                                          *)
(*                                                                         *)
(* Numbers of C++ type double are modelled as exact rationals extended     *)
(* with the IEEE non-finite values produced by a division by zero          *)
(* (+inf, -inf, NaN).  Angles are measured in units in which TWO_PI is a   *)
(* whole number; the code never uses the numeric value of pi other than    *)
(* through PI, TWO_PI and sin().  Times are rationals in seconds.          *)
(***************************************************************************)
EXTENDS Integers, Sequences, FiniteSets, TLC

(***************************************************************************)
(* Bounds of the model.                                                    *)
(***************************************************************************)
\* Samples per second, and so per paxel, of the scaled-down model
\* (96000 in the source).
kSampleRate == 3
\* Input times are multiples of 1 / (TicksPerSample * kSampleRate) seconds.
TicksPerSample == 2
\* Longest partial, in samples.
MaxEndSamples == 6
\* Latest start of a partial, in ticks.
MaxStartTicks == 9
\* Width of the unsigned integer type of the model.
UIntBits == 12

\* Width of the mantissa where the rounding of double results is followed.
MantissaBits == 3

\* The number of buffers the mixer is given, and their length.
MaxPartials == 3

MaxBufferLength == 2

(***************************************************************************)
(* The type double: [n, d] with d > 0 a reduced fraction; d = 0 is a       *)
(* non-finite value: n = 1 is +inf, n = -1 is -inf, n = 0 is NaN.          *)
(***************************************************************************)
Abs(i) == IF i < 0 THEN -i ELSE i

Sign(i) == IF i < 0 THEN -1 ELSE IF i > 0 THEN 1 ELSE 0

RECURSIVE GCD(_, _)
GCD(a, b) == IF b = 0 THEN a ELSE GCD(b, a % b)

\* The fraction n / d with g the greatest common divisor of n and d.
Reduced(n, d, g) ==
    IF d = 0 THEN [n |-> Sign(n), d |-> 0]
    ELSE IF d < 0 THEN [n |-> (-n) \div g, d |-> (-d) \div g]
    ELSE [n |-> n \div g, d |-> d \div g]

Rat(n, d) == Reduced(n, d, GCD(Abs(n), Abs(d)))

DInt(i) == [n |-> i, d |-> 1]

DNaN == [n |-> 0, d |-> 0]

IsNaN(a) == a.d = 0 /\ a.n = 0

IsInf(a) == a.d = 0 /\ a.n # 0

IsFinite(a) == a.d > 0

DNeg(a) == [n |-> -a.n, d |-> a.d]

DAdd(a, b) ==
    IF IsNaN(a) \/ IsNaN(b) THEN DNaN
    ELSE IF IsInf(a) /\ IsInf(b) THEN (IF a.n = b.n THEN a ELSE DNaN)
    ELSE IF IsInf(a) THEN a
    ELSE IF IsInf(b) THEN b
    ELSE Rat(a.n * b.d + b.n * a.d, a.d * b.d)

DSub(a, b) == DAdd(a, DNeg(b))

DMul(a, b) ==
    IF IsNaN(a) \/ IsNaN(b) THEN DNaN
    ELSE IF IsInf(a) \/ IsInf(b)
         THEN [n |-> Sign(a.n) * Sign(b.n), d |-> 0]
    ELSE Rat(a.n * b.n, a.d * b.d)

\* The sign of a zero divisor is always positive in the code (it is an
\* unsigned difference, or a square, converted to double).
DDiv(a, b) ==
    IF IsNaN(a) \/ IsNaN(b) THEN DNaN
    ELSE IF IsInf(a) /\ IsInf(b) THEN DNaN
    ELSE IF IsInf(a) THEN [n |-> a.n * (IF b.n < 0 THEN -1 ELSE 1), d |-> 0]
    ELSE IF IsInf(b) THEN DInt(0)
    ELSE IF b.n = 0 THEN [n |-> Sign(a.n), d |-> 0]
    ELSE Rat(a.n * b.d, a.d * b.n)

\* operator== on double: NaN compares unequal to everything.
DEq(a, b) == ~IsNaN(a) /\ ~IsNaN(b) /\ a = b

DNe(a, b) == ~DEq(a, b)

DLt(a, b) ==
    /\ ~IsNaN(a) /\ ~IsNaN(b)
    /\ IF IsInf(a) /\ IsInf(b) THEN a.n < b.n
       ELSE a.n * b.d < b.n * a.d

DLe(a, b) == DLt(a, b) \/ DEq(a, b)

DGt(a, b) == DLt(b, a)

DGe(a, b) == DLe(b, a)

\* Rounding of a result to the nearest double, ties to even.  The mantissa
\* of the model has MantissaBits bits where rounding is followed; a mantissa
\* of 0 stands for operands whose results are representable, and leaves the
\* value as it is.  Normalized scales the positive fraction n / d by powers
\* of two until its quotient has exactly mantissa bits.
RECURSIVE Normalized(_, _, _, _)
Normalized(n, d, e, mantissa) ==
    IF n >= d * (2 ^ mantissa) THEN Normalized(n, 2 * d, e + 1, mantissa)
    ELSE IF n < d * (2 ^ (mantissa - 1)) THEN Normalized(2 * n, d, e - 1, mantissa)
    ELSE [n |-> n, d |-> d, e |-> e]

\* The integer nearest to n / d, ties to even.
NearestEven(n, d) ==
    IF 2 * (n % d) > d \/ (2 * (n % d) = d /\ (n \div d) % 2 = 1)
    THEN (n \div d) + 1 ELSE n \div d

\* sign * m * 2^e for the normalized fraction v.
Scaled(sign, v) ==
    IF v.e >= 0 THEN Rat(sign * NearestEven(v.n, v.d) * (2 ^ v.e), 1)
    ELSE Rat(sign * NearestEven(v.n, v.d), 2 ^ (-v.e))

Round(a, mantissa) ==
    IF mantissa = 0 \/ ~IsFinite(a) \/ a.n = 0 THEN a
    ELSE Scaled(Sign(a.n), Normalized(Abs(a.n), a.d, 0, mantissa))

\* Conversion of a finite double to an integer type: truncation toward zero.
Trunc(a) == IF a.n >= 0 THEN a.n \div a.d ELSE -((-a.n) \div a.d)

\* std::fmod(x, y) for finite y > 0: the remainder has the sign of x.
Fmod(x, y) ==
    IF ~IsFinite(x) THEN DNaN
    ELSE DSub(x, DMul(DInt(Trunc(DDiv(x, y))), y))

\* Arithmetic of uint32_t.  The model checker's integers are 32 bits wide
\* and signed, so the unsigned type is modelled with UIntBits bits: wrapped
\* values are far above every sample index of the model, as they are in the
\* source.
U32 == 2 ^ UIntBits

USub(a, b) == (a - b) % U32

UAdd(a, b) == (a + b) % U32


(***************************************************************************)
(* Constants of audio_types.h and paxel_types.h.                           *)
(***************************************************************************)
ZERO_PI == DInt(0)

\* One full turn.  The unit of angle is an eighth of a turn.
TWO_PI == DInt(8)

PI == DDiv(TWO_PI, DInt(2))

HALF_PI == DDiv(PI, DInt(2))

NATURAL_PHASE == DInt(-999999999)

kSamplesPerPaxel == kSampleRate

(***************************************************************************)
(* audio_helpers.h                                                         *)
(***************************************************************************)
\* if (phaseModResult < 0.0) phaseModResult += TWO_PI
phaseModWrap(phaseModResult, mantissa) ==
    IF DLt(phaseModResult, DInt(0))
    THEN Round(DAdd(phaseModResult, TWO_PI), mantissa)
    ELSE phaseModResult

\* std::fmod is exact; only the addition of a turn rounds.
phaseMod(phase, mantissa) == phaseModWrap(Fmod(phase, TWO_PI), mantissa)

\* The two corrections of the difference by a full turn.
coherenceWrap(difference, mantissa) ==
    IF DGt(difference, PI) THEN Round(DSub(difference, TWO_PI), mantissa)
    ELSE IF DLt(difference, DNeg(PI))
         THEN Round(DAdd(difference, TWO_PI), mantissa)
    ELSE difference

\* The difference before the final assertion of coherenceCompensation.
coherenceDifference(sourcePhase, targetPhase, mantissa) ==
    coherenceWrap(Round(DSub(phaseMod(targetPhase, mantissa), phaseMod(sourcePhase, mantissa)), mantissa), mantissa)

coherenceCompensation(sourcePhase, targetPhase, mantissa) ==
    IF DEq(sourcePhase, targetPhase) THEN DInt(0)
    ELSE coherenceDifference(sourcePhase, targetPhase, mantissa)

\* assert((difference >= -PI) && (difference <= PI))
coherenceInRange(difference) ==
    DGe(difference, DNeg(PI)) /\ DLe(difference, PI)

coherenceCompensationAssert(sourcePhase, targetPhase, mantissa) ==
    \/ DEq(sourcePhase, targetPhase)
    \/ coherenceInRange(coherenceDifference(sourcePhase, targetPhase, mantissa))

secondsToSamples(timesSeconds) ==
    Trunc(DMul(timesSeconds, DInt(kSampleRate))) % U32

normalizeFrequency(frequencyHz) ==
    DDiv(DMul(frequencyHz, TWO_PI), DInt(kSampleRate))

computeCycleAccumulator(startCycleAccumulator, startFrequency, startFrequencyRate, samplesSinceStart) ==
    LET n == DInt(samplesSinceStart)
    IN  DAdd(DAdd(DMul(DMul(DMul(Rat(1, 2), startFrequencyRate), n), n),
                  DMul(startFrequency, n)),
             startCycleAccumulator)

computeCycleAccumulatorToExactEnd(startCycleAccumulator, startFrequency, endFrequency, samplesBetween) ==
    LET n == DInt(samplesBetween)
    IN  DAdd(DAdd(startCycleAccumulator, DMul(startFrequency, n)),
             DDiv(DMul(DSub(endFrequency, startFrequency), n), DInt(2)))

computeFrequencyRate(startCycleAccumulator, startFrequency, endCycleAccumulator, samplesSinceStart) ==
    LET n == DInt(samplesSinceStart)
    IN  DDiv(DMul(DInt(2),
                  DSub(DSub(endCycleAccumulator, startCycleAccumulator),
                       DMul(startFrequency, n))),
             DMul(n, n))

(***************************************************************************)
(* envelope_types.h: logical and physical types.  Each constructor is a    *)
(* record builder; its assertions are the ...Invariant predicates.         *)
(***************************************************************************)
Envelope(levels, times) == [levels |-> levels, timesSeconds |-> times]

\* PhaseCoordinate(time, value) and PhaseCoordinate(time)
PhaseCoordinate(time, value) ==
    [timeSeconds |-> time, timeSamples |-> secondsToSamples(time),
     value |-> value, natural |-> FALSE]

NaturalPhaseCoordinate(time) ==
    [timeSeconds |-> time, timeSamples |-> secondsToSamples(time),
     value |-> NATURAL_PHASE, natural |-> TRUE]

PhysicalFrequencyCoordinate(frequency, timeSamples) ==
    [frequency |-> frequency, timeSamples |-> timeSamples]

PhysicalAmplitudeCoordinate(amplitude, timeSamples) ==
    [amplitude |-> amplitude, timeSamples |-> timeSamples]

\* PhysicalPhaseCoordinate(PhaseCoordinate)
PhysicalPhaseCoordinate(phaseCoordinate) ==
    [phase |-> phaseCoordinate.value,
     timeSamples |-> secondsToSamples(phaseCoordinate.timeSeconds),
     natural |-> phaseCoordinate.natural]

\* assert(phase >= ZERO_PI && phase <= TWO_PI) of PhysicalPhaseCoordinate
PhysicalPhaseCoordinateInvariant(c) ==
    DGe(c.phase, ZERO_PI) /\ DLe(c.phase, TWO_PI)

frequencyRate(coord1, coord2) ==
    DDiv(DSub(coord2.frequency, coord1.frequency),
         DInt(USub(coord2.timeSamples, coord1.timeSamples)))

amplitudeRate(coord1, coord2) ==
    DDiv(DSub(coord2.amplitude, coord1.amplitude),
         DInt(USub(coord2.timeSamples, coord1.timeSamples)))

PhysicalEnvelopePoint(timeSamples, cycleAccumulator, frequency, fRate, amplitude, aRate) ==
    [timeSamples |-> timeSamples, cycleAccumulator |-> cycleAccumulator,
     frequency |-> frequency, frequencyRate |-> fRate,
     amplitude |-> amplitude, amplitudeRate |-> aRate]

\* The assertions of the PhysicalEnvelopePoint constructor.
PhysicalEnvelopePointInvariant(p) ==
    /\ DGe(p.frequency, DInt(0))
    /\ DGe(p.cycleAccumulator, DInt(0))
    /\ DGe(p.amplitude, DInt(-1)) /\ DLe(p.amplitude, DInt(1))

\* The defaulted comparison of PhysicalEnvelopePoint: member-wise ==.
PointEq(p, q) ==
    /\ p.timeSamples = q.timeSamples
    /\ DEq(p.cycleAccumulator, q.cycleAccumulator)
    /\ DEq(p.frequency, q.frequency)
    /\ DEq(p.frequencyRate, q.frequencyRate)
    /\ DEq(p.amplitude, q.amplitude)
    /\ DEq(p.amplitudeRate, q.amplitudeRate)

\* assert(timeSamples >= pointA.timeSamples); assert(timeSamples <= pointB.timeSamples)
interpolatePrecondition(pointA, pointB, timeSamples) ==
    timeSamples >= pointA.timeSamples /\ timeSamples <= pointB.timeSamples

\* The point interpolate builds, given its interpolation ratio.
interpolateAtRatio(pointA, pointB, timeSamples, ratio) ==
    PhysicalEnvelopePoint(
        timeSamples,
        computeCycleAccumulator(pointA.cycleAccumulator, pointA.frequency,
                                pointA.frequencyRate,
                                USub(timeSamples, pointA.timeSamples)),
        DAdd(DMul(ratio, DSub(pointB.frequency, pointA.frequency)),
             pointA.frequency),
        pointA.frequencyRate,
        DAdd(DMul(ratio, DSub(pointB.amplitude, pointA.amplitude)),
             pointA.amplitude),
        pointA.amplitudeRate)

interpolate(pointA, pointB, timeSamples) ==
    interpolateAtRatio(pointA, pointB, timeSamples,
                       DDiv(DInt(USub(timeSamples, pointA.timeSamples)),
                            DInt(USub(pointB.timeSamples, pointA.timeSamples))))


(***************************************************************************)
(* Sequence helpers (std::vector / std::list operations).                  *)
(***************************************************************************)
Back(s) == s[Len(s)]

PopBack(s) == SubSeq(s, 1, Len(s) - 1)

Min2(a, b) == IF a < b THEN a ELSE b

\* The elements of a container.
Elements(s) == {s[i] : i \in 1..Len(s)}

\* std::accumulate(times.begin(), times.end(), 0.0), over the first k elements
\* std::accumulate(times.begin(), times.begin() + k, 0.0), each sum rounded
\* to a mantissa of the given width.
RECURSIVE Accumulate(_, _, _)
Accumulate(times, k, mantissa) ==
    IF k = 0 THEN DInt(0)
    ELSE Round(DAdd(Accumulate(times, k - 1, mantissa), times[k]), mantissa)

\* coords.insert(position, point): point is placed before index position
InsertAt(s, position, point) ==
    SubSeq(s, 1, position - 1) \o <<point>> \o SubSeq(s, position, Len(s))

(***************************************************************************)
(* PhysicalEnvelopeGenerator::trimPartialEnvelope                          *)
(***************************************************************************)
\* Every arithmetic result of the trimmer is rounded to a mantissa of the
\* given width (0: the operands are such that the results are representable).
\* while ((envelopeTotalTime - times.back()) > endTimeSeconds_) { pop }
RECURSIVE trimDropTail(_, _, _, _, _)
trimDropTail(levels, times, envelopeTotalTime, endTime, mantissa) ==
    IF DGt(Round(DSub(envelopeTotalTime, Back(times)), mantissa), endTime)
    THEN trimDropTail(PopBack(levels), PopBack(times),
                      Round(DSub(envelopeTotalTime, Back(times)), mantissa),
                      endTime, mantissa)
    ELSE [levels |-> levels, times |-> times, total |-> envelopeTotalTime]

\* interpolatedLevel = levelOneBeforeBack +
\*     (levelBack - levelOneBeforeBack) * (timeLastEnvelopeSegment / times.back())
interpolatedLevel(levelOneBeforeBack, levelBack, timeLastEnvelopeSegment, timeBack, mantissa) ==
    Round(DAdd(levelOneBeforeBack,
               Round(DMul(Round(DSub(levelBack, levelOneBeforeBack), mantissa),
                          Round(DDiv(timeLastEnvelopeSegment, timeBack), mantissa)),
                     mantissa)),
          mantissa)

\* The last level and time replaced by the interpolated level at the end.
trimInterpolate(levels, times, timeLastEnvelopeSegment, mantissa) ==
    [levels |->
        Append(PopBack(levels),
               interpolatedLevel(levels[Len(levels) - 1], Back(levels),
                                 timeLastEnvelopeSegment, Back(times), mantissa)),
     times |-> Append(PopBack(times), timeLastEnvelopeSegment)]

\* The envelope is too long: d is what the while loop leaves.
trimShorten(d, endTime, mantissa) ==
    trimInterpolate(d.levels, d.times,
                    Round(DSub(endTime,
                               Round(DSub(d.total, Back(d.times)), mantissa)),
                          mantissa),
                    mantissa)

\* The three cases of trimPartialEnvelope after the sizes are adjusted.
trimToEnd(levels, times, envelopeTotalTime, endTime, mantissa) ==
    IF DEq(envelopeTotalTime, endTime)
    THEN [levels |-> levels, times |-> times]
    ELSE IF DLt(envelopeTotalTime, endTime)
    THEN [levels |-> Append(levels, Back(levels)),
          times |-> Append(times, Round(DSub(endTime, envelopeTotalTime),
                                        mantissa))]
    ELSE trimShorten(trimDropTail(levels, times, envelopeTotalTime, endTime,
                                  mantissa),
                     endTime, mantissa)

\* levels.resize(times.size() + 1) when there are too many levels.
trimLevels(levelsIn, times, endTime, mantissa) ==
    trimToEnd(SubSeq(levelsIn, 1, Min2(Len(levelsIn), Len(times) + 1)),
              times, Accumulate(times, Len(times), mantissa), endTime, mantissa)

\* times.resize(levels.size() - 1) when there are too many times.
trimPartialEnvelope(levelsIn, timesIn, endTime, mantissa) ==
    trimLevels(levelsIn,
               SubSeq(timesIn, 1, Min2(Len(timesIn), Len(levelsIn) - 1)),
               endTime, mantissa)

(***************************************************************************)
(* populatePhysicalAmplitudeCoords / FrequencyCoords / PhaseCoords         *)
(***************************************************************************)
\* Each level held until the end of its segment.
populatePhysicalAmplitudeCoordsHeld(amplitudeLevels, amplitudeTimes, finalSample) ==
    [i \in 1..Len(amplitudeLevels) |->
        IF i <= Len(amplitudeTimes)
        THEN PhysicalAmplitudeCoordinate(
                 amplitudeLevels[IF i = 1 THEN 1 ELSE i - 1],
                 secondsToSamples(Accumulate(amplitudeTimes, i - 1, 0)))
        ELSE PhysicalAmplitudeCoordinate(amplitudeLevels[i], finalSample)]

populatePhysicalAmplitudeCoords(amplitudeLevels, amplitudeTimes, finalSample) ==
    [i \in 1..Len(amplitudeLevels) |->
        IF i <= Len(amplitudeTimes)
        THEN PhysicalAmplitudeCoordinate(
                 amplitudeLevels[i],
                 secondsToSamples(Accumulate(amplitudeTimes, i - 1, 0)))
        ELSE PhysicalAmplitudeCoordinate(amplitudeLevels[i], finalSample)]

populatePhysicalFrequencyCoords(frequencyLevels, frequencyTimes, finalSample) ==
    [i \in 1..Len(frequencyLevels) |->
        IF i <= Len(frequencyTimes)
        THEN PhysicalFrequencyCoordinate(
                 normalizeFrequency(frequencyLevels[i]),
                 secondsToSamples(Accumulate(frequencyTimes, i - 1, 0)))
        ELSE PhysicalFrequencyCoordinate(
                 normalizeFrequency(frequencyLevels[i]), finalSample)]

populatePhysicalPhaseCoords(coordinates) ==
    [i \in 1..Len(coordinates) |-> PhysicalPhaseCoordinate(coordinates[i])]

\* Assertions of populatePhysicalAmplitudeCoords and of the coordinates built.
populatePhysicalAmplitudeCoordsAsserts(amplitudeLevels, amplitudeTimes, existing, finalSample) ==
    /\ Len(amplitudeLevels) = Len(amplitudeTimes) + 1
    /\ Len(amplitudeLevels) > 0
    /\ Len(existing) = 0
    /\ \A i \in 1..Len(amplitudeLevels) :
          /\ DGe(amplitudeLevels[i], DInt(-1))
          /\ DLe(amplitudeLevels[i], DInt(1))

\* Assertions of populatePhysicalFrequencyCoords and of the coordinates built.
populatePhysicalFrequencyCoordsAsserts(frequencyLevels, frequencyTimes, existing, finalSample) ==
    /\ Len(frequencyLevels) = Len(frequencyTimes) + 1
    /\ Len(frequencyLevels) > 0
    /\ Len(existing) = 0
    /\ \A i \in 1..Len(frequencyLevels) :
          DGt(normalizeFrequency(frequencyLevels[i]), DInt(0))


(***************************************************************************)
(* PhysicalEnvelopeGenerator::populateEnvelope: the fused sweep.           *)
(* Iterators into the coordinate lists are indices; the "current"          *)
(* iterator of a list is always the one before its "next" iterator.        *)
(***************************************************************************)
Min3(a, b, c) == Min2(a, Min2(b, c))

\* The state of the sweep before the loop.
populateEnvelopeInit(fCoords, aCoords) ==
    LET currentFrequencyRate == frequencyRate(fCoords[1], fCoords[2])
        currentAmplitudeRate == amplitudeRate(aCoords[1], aCoords[2])
    IN  [nextFrequency |-> 2, nextAmplitude |-> 2, phase |-> 2,
         currentTimeSamples |-> 0,
         cycleAccumulator |-> DInt(0),
         lastFreqPointCycleAccumulator |-> DInt(0),
         currentFrequencyRate |-> currentFrequencyRate,
         currentAmplitudeRate |-> currentAmplitudeRate,
         coords |-> <<PhysicalEnvelopePoint(0, DInt(0), fCoords[1].frequency,
                                            currentFrequencyRate,
                                            aCoords[1].amplitude,
                                            currentAmplitudeRate)>>,
         controlledPhaseIterators |-> <<1>>]

\* The end of one iteration: the iterators advance and the point is appended.
\* nf and na are the next-coordinate iterators after the iteration.
populateEnvelopeAdvance(s, pCoords, endTimeSamples, nf, na, atFrequency, point) ==
    [nextFrequency |-> nf, nextAmplitude |-> na,
     phase |-> IF /\ point.timeSamples = pCoords[s.phase].timeSamples
                  /\ point.timeSamples # endTimeSamples
               THEN s.phase + 1 ELSE s.phase,
     currentTimeSamples |-> point.timeSamples,
     cycleAccumulator |-> point.cycleAccumulator,
     lastFreqPointCycleAccumulator |->
         IF atFrequency THEN point.cycleAccumulator
         ELSE s.lastFreqPointCycleAccumulator,
     currentFrequencyRate |-> point.frequencyRate,
     currentAmplitudeRate |-> point.amplitudeRate,
     coords |-> Append(s.coords, point),
     controlledPhaseIterators |->
         IF point.timeSamples = pCoords[s.phase].timeSamples
         THEN Append(s.controlledPhaseIterators, Len(s.coords) + 1)
         ELSE s.controlledPhaseIterators]

\* The point of one iteration, given the frequency at it.
populateEnvelopePoint(s, fCoords, aCoords, nextTimeSamples, nf, na, atFrequency, atAmplitude, currentFrequency) ==
    PhysicalEnvelopePoint(
        nextTimeSamples,
        IF atFrequency
        THEN computeCycleAccumulatorToExactEnd(
                 s.lastFreqPointCycleAccumulator,
                 fCoords[s.nextFrequency - 1].frequency, currentFrequency,
                 USub(nextTimeSamples, fCoords[s.nextFrequency - 1].timeSamples))
        ELSE computeCycleAccumulator(
                 s.lastFreqPointCycleAccumulator,
                 fCoords[s.nextFrequency - 1].frequency, s.currentFrequencyRate,
                 USub(nextTimeSamples, fCoords[s.nextFrequency - 1].timeSamples)),
        currentFrequency,
        IF nf # s.nextFrequency THEN frequencyRate(fCoords[nf - 1], fCoords[nf])
        ELSE s.currentFrequencyRate,
        IF atAmplitude THEN aCoords[s.nextAmplitude].amplitude
        ELSE DAdd(aCoords[s.nextAmplitude - 1].amplitude,
                  DMul(s.currentAmplitudeRate,
                       DInt(USub(nextTimeSamples,
                                 aCoords[s.nextAmplitude - 1].timeSamples)))),
        IF na # s.nextAmplitude THEN amplitudeRate(aCoords[na - 1], aCoords[na])
        ELSE s.currentAmplitudeRate)

\* One iteration, given which coordinates lie at nextTimeSamples.
populateEnvelopeAt(s, fCoords, aCoords, pCoords, endTimeSamples, nextTimeSamples, nf, na, atFrequency, atAmplitude) ==
    populateEnvelopeAdvance(
        s, pCoords, endTimeSamples, nf, na, atFrequency,
        populateEnvelopePoint(
            s, fCoords, aCoords, nextTimeSamples, nf, na, atFrequency,
            atAmplitude,
            IF atFrequency THEN fCoords[s.nextFrequency].frequency
            ELSE DAdd(fCoords[s.nextFrequency - 1].frequency,
                      DMul(s.currentFrequencyRate,
                           DInt(USub(nextTimeSamples,
                                     fCoords[s.nextFrequency - 1].timeSamples))))))

\* One iteration, given the time of its point.
populateEnvelopeNext(s, fCoords, aCoords, pCoords, endTimeSamples, nextTimeSamples) ==
    populateEnvelopeAt(
        s, fCoords, aCoords, pCoords, endTimeSamples, nextTimeSamples,
        IF /\ nextTimeSamples = fCoords[s.nextFrequency].timeSamples
           /\ nextTimeSamples # endTimeSamples
        THEN s.nextFrequency + 1 ELSE s.nextFrequency,
        IF /\ nextTimeSamples = aCoords[s.nextAmplitude].timeSamples
           /\ nextTimeSamples # endTimeSamples
        THEN s.nextAmplitude + 1 ELSE s.nextAmplitude,
        nextTimeSamples = fCoords[s.nextFrequency].timeSamples,
        nextTimeSamples = aCoords[s.nextAmplitude].timeSamples)

\* One iteration of the while loop.
populateEnvelopeStep(s, fCoords, aCoords, pCoords, endTimeSamples) ==
    populateEnvelopeNext(s, fCoords, aCoords, pCoords, endTimeSamples,
                         Min3(fCoords[s.nextFrequency].timeSamples,
                              aCoords[s.nextAmplitude].timeSamples,
                              pCoords[s.phase].timeSamples))

RECURSIVE populateEnvelopeLoop(_, _, _, _, _)
populateEnvelopeLoop(s, fCoords, aCoords, pCoords, endTimeSamples) ==
    IF s.currentTimeSamples < endTimeSamples
    THEN populateEnvelopeLoop(
             populateEnvelopeStep(s, fCoords, aCoords, pCoords, endTimeSamples),
             fCoords, aCoords, pCoords, endTimeSamples)
    ELSE s

populateEnvelope(fCoords, aCoords, pCoords) ==
    populateEnvelopeLoop(populateEnvelopeInit(fCoords, aCoords),
                         fCoords, aCoords, pCoords, Back(pCoords).timeSamples)

\* The precondition and postcondition assertions of populateEnvelope and the
\* constructor assertions of every point it builds.
populateEnvelopeAsserts(fCoords, aCoords, pCoords, result) ==
    /\ fCoords[1].timeSamples = aCoords[1].timeSamples
    /\ aCoords[1].timeSamples = pCoords[1].timeSamples
    /\ Back(fCoords).timeSamples = Back(aCoords).timeSamples
    /\ Back(aCoords).timeSamples = Back(pCoords).timeSamples
    /\ \A i \in 1..Len(result.coords) :
          PhysicalEnvelopePointInvariant(result.coords[i])
    /\ Len(result.coords) > 1
    /\ result.coords[1].timeSamples = 0
    /\ Back(result.coords).timeSamples = Back(aCoords).timeSamples


(***************************************************************************)
(* PhysicalEnvelopeGenerator::interpolateControlledPhasePoints: the phase  *)
(* compensation pass.                                                      *)
(***************************************************************************)
\* A variant of the loop body that computes the frequency rate before the
\* accumulator of the point at next is shifted.
interpolateWriteStale(cs, it, next, accumulator) ==
    [cs EXCEPT ![next].cycleAccumulator = accumulator,
               ![it].frequencyRate =
                   computeFrequencyRate(
                       cs[it].cycleAccumulator, cs[it].frequency,
                       cs[next].cycleAccumulator,
                       USub(cs[next].timeSamples, cs[it].timeSamples))]

\* A variant of the loop body that also moves the frequency of the point at
\* next onto the rewritten ramp.
interpolateWriteRetuned(cs, it, next, accumulator) ==
    [cs EXCEPT ![next].cycleAccumulator = accumulator,
               ![it].frequencyRate =
                   computeFrequencyRate(
                       cs[it].cycleAccumulator, cs[it].frequency, accumulator,
                       USub(cs[next].timeSamples, cs[it].timeSamples)),
               ![next].frequency =
                   DAdd(cs[it].frequency,
                        DMul(computeFrequencyRate(
                                 cs[it].cycleAccumulator, cs[it].frequency,
                                 accumulator,
                                 USub(cs[next].timeSamples, cs[it].timeSamples)),
                             DInt(USub(cs[next].timeSamples,
                                       cs[it].timeSamples))))]

\* A variant of the loop body that leaves the accumulator of the point at
\* next as the sweep computed it.
interpolateWriteUnshifted(cs, it, next, accumulator) ==
    [cs EXCEPT ![it].frequencyRate =
                   computeFrequencyRate(
                       cs[it].cycleAccumulator, cs[it].frequency, accumulator,
                       USub(cs[next].timeSamples, cs[it].timeSamples))]

\* One pass of the body of the do ... while loop: the point at next gets
\* accumulator, the point at it gets the frequency rate that leads to it.
interpolateWrite(cs, it, next, accumulator) ==
    [cs EXCEPT ![next].cycleAccumulator = accumulator,
               ![it].frequencyRate =
                   computeFrequencyRate(
                       cs[it].cycleAccumulator, cs[it].frequency, accumulator,
                       USub(cs[next].timeSamples, cs[it].timeSamples))]

\* The do ... while loop: it is the index of interpolationIterator on entry
\* to the body, last the index the current anchor refers to.
RECURSIVE interpolateInner(_, _, _, _, _, _)
\* while (interpolationIterator != *controlledPhaseIterIterator)
interpolateWhile(cs, next, last, timePrevious, phaseShiftPerSample, cumulativePhaseShift) ==
    IF next = last THEN cs
    ELSE interpolateInner(cs, next, last, timePrevious, phaseShiftPerSample,
                          cumulativePhaseShift)

interpolateInner(cs, it, last, timePrevious, phaseShiftPerSample, cumulativePhaseShift) ==
    interpolateWhile(
        interpolateWrite(
            cs, it, it + 1,
            DAdd(cs[it + 1].cycleAccumulator,
                 DAdd(DMul(DInt(USub(cs[it + 1].timeSamples, timePrevious)),
                           phaseShiftPerSample),
                      cumulativePhaseShift))),
        it + 1, last, timePrevious, phaseShiftPerSample, cumulativePhaseShift)

\* The while loop over the anchors; k is the position of
\* controlledPhaseIterIterator, which is in lock-step with the phase
\* coordinate iterator.  ok records the assertion of coherenceCompensation.
RECURSIVE interpolateOuter(_, _, _, _, _, _)
\* The body of the loop once proportionalShift is known.
interpolateShift(cs, anchors, pCoords, k, cumulativePhaseShift, ok, proportionalShift) ==
    IF DNe(cumulativePhaseShift, DInt(0)) \/ DNe(proportionalShift, DInt(0))
    THEN interpolateOuter(
             interpolateInner(
                 cs, anchors[k - 1], anchors[k],
                 cs[anchors[k - 1]].timeSamples,
                 DDiv(proportionalShift,
                      DInt(USub(pCoords[k].timeSamples,
                                cs[anchors[k - 1]].timeSamples))),
                 cumulativePhaseShift),
             anchors, pCoords, k + 1,
             DAdd(cumulativePhaseShift, proportionalShift), ok)
    ELSE interpolateOuter(cs, anchors, pCoords, k + 1, cumulativePhaseShift, ok)

\* The body of the loop, given the accumulator the anchor has so far.
interpolateAnchor(cs, anchors, pCoords, k, cumulativePhaseShift, ok, source) ==
    interpolateShift(
        cs, anchors, pCoords, k, cumulativePhaseShift,
        ok /\ (pCoords[k].natural
               \/ coherenceCompensationAssert(source, pCoords[k].phase, 0)),
        IF ~pCoords[k].natural
        THEN coherenceCompensation(source, pCoords[k].phase, 0)
        ELSE DInt(0))

interpolateOuter(cs, anchors, pCoords, k, cumulativePhaseShift, ok) ==
    IF k > Len(anchors) THEN [coords |-> cs, ok |-> ok]
    ELSE interpolateAnchor(
             cs, anchors, pCoords, k, cumulativePhaseShift, ok,
             DAdd(cs[anchors[k]].cycleAccumulator, cumulativePhaseShift))

\* The pass once the initial phase is known.
interpolateFrom(cs, anchors, pCoords, cumulativePhaseShift) ==
    interpolateOuter(
        IF ~pCoords[1].natural
        THEN [cs EXCEPT ![anchors[1]].cycleAccumulator = cumulativePhaseShift]
        ELSE cs,
        anchors, pCoords, 2, cumulativePhaseShift, TRUE)

interpolateControlledPhasePoints(cs, anchors, pCoords) ==
    interpolateFrom(cs, anchors, pCoords,
                    IF ~pCoords[1].natural
                    THEN DAdd(DInt(0), pCoords[1].phase)
                    ELSE DInt(0))

\* The precondition assertions of interpolateControlledPhasePoints.
interpolateControlledPhasePointsPrecondition(cs, anchors, coordinates, pCoords) ==
    /\ PointEq(cs[anchors[1]], cs[1])
    /\ PointEq(cs[Back(anchors)], Back(cs))
    /\ Len(anchors) = Len(coordinates)
    /\ Len(anchors) = Len(pCoords)


(***************************************************************************)
(* PhysicalEnvelopeGenerator::divideIntoPaxelGrid                          *)
(***************************************************************************)
\* A copy of point with silence in it (firstSilentPoint, lastSilentPoint).
silentPoint(point, timeSamples) ==
    [point EXCEPT !.timeSamples = timeSamples, !.amplitude = DInt(0),
                  !.amplitudeRate = DInt(0), !.frequency = DInt(0),
                  !.frequencyRate = DInt(0)]

\* The inner while loop: the index coordsIter stops at.  currentPoint keeps
\* referring to the last point when coordsIter reaches coords.end().
RECURSIVE paxelScan(_, _, _)
paxelScan(cs, coordsIter, currentPaxelEndSample) ==
    IF coordsIter <= Len(cs) /\ cs[coordsIter].timeSamples < currentPaxelEndSample
    THEN paxelScan(cs, coordsIter + 1, currentPaxelEndSample)
    ELSE coordsIter

\* The points of one paxel as the two std::transform calls build them.
paxelVector(cs, start, pointsInCurrentPaxel, gridOffset) ==
    LET offset == cs[start].timeSamples
    IN  IF offset = 0
        THEN <<cs[start]>> \o
             [i \in 1..(pointsInCurrentPaxel - 1) |->
                 [cs[start + i] EXCEPT
                     !.timeSamples = UAdd(cs[start + i].timeSamples, gridOffset)]]
        ELSE [i \in 1..pointsInCurrentPaxel |->
                 [cs[start + i - 1] EXCEPT
                     !.timeSamples = USub(cs[start + i - 1].timeSamples, offset)]]

\* The constructor assertions of the points the transforms build (the first
\* point of the first paxel is copied, not constructed).
paxelVectorAsserts(cs, start, pointsInCurrentPaxel) ==
    \A i \in 0..(pointsInCurrentPaxel - 1) :
        (i = 0 /\ cs[start].timeSamples = 0)
        \/ PhysicalEnvelopePointInvariant(cs[start + i])

\* The outer while loop.  d.ub is set when an iteration has undefined
\* behaviour: an empty first paxel makes std::next count from
\* pointsInCurrentPaxel - 1 = 2^32 - 1 and runs the iterator off the list.
RECURSIVE divideLoop(_, _)
\* The end of an iteration that inserts point at the start of the next paxel.
divideInsert(d, gridOffset, currentPaxelEndSample, stop, point) ==
    divideLoop(
        [coords |-> InsertAt(d.coords, stop, point),
         controlledPhaseIterators |->
             [i \in 1..Len(d.controlledPhaseIterators) |->
                 IF d.controlledPhaseIterators[i] >= stop
                 THEN d.controlledPhaseIterators[i] + 1
                 ELSE d.controlledPhaseIterators[i]],
         interpolated |->
             Append(d.interpolated,
                    [pointA |-> d.coords[stop - 1], pointB |-> d.coords[stop],
                     point |-> point]),
         coordsIter |-> stop,
         currentRelativePaxel |-> d.currentRelativePaxel + 1,
         returnPoints |->
             Append(d.returnPoints,
                    paxelVector(d.coords, d.coordsIter, stop - d.coordsIter,
                                gridOffset)),
         ok |-> /\ d.ok
                /\ paxelVectorAsserts(d.coords, d.coordsIter,
                                      stop - d.coordsIter)
                /\ interpolatePrecondition(d.coords[stop - 1], d.coords[stop],
                                           UAdd(currentPaxelEndSample, 1))
                /\ PhysicalEnvelopePointInvariant(point),
         ub |-> FALSE],
        gridOffset)

\* One iteration, given the index stop the inner loop leaves coordsIter at.
dividePaxel(d, gridOffset, currentPaxelEndSample, stop) ==
    IF d.coords[d.coordsIter].timeSamples = 0 /\ stop = d.coordsIter
    THEN [d EXCEPT !.ub = TRUE]
    ELSE IF /\ stop <= Len(d.coords)
            /\ d.coords[stop].timeSamples # UAdd(currentPaxelEndSample, 1)
    THEN divideInsert(d, gridOffset, currentPaxelEndSample, stop,
                      interpolate(d.coords[stop - 1], d.coords[stop],
                                  UAdd(currentPaxelEndSample, 1)))
    ELSE divideLoop(
             [d EXCEPT
                 !.coordsIter = stop,
                 !.currentRelativePaxel = d.currentRelativePaxel + 1,
                 !.returnPoints =
                     Append(d.returnPoints,
                            paxelVector(d.coords, d.coordsIter,
                                        stop - d.coordsIter, gridOffset)),
                 !.ok = /\ d.ok
                        /\ paxelVectorAsserts(d.coords, d.coordsIter,
                                              stop - d.coordsIter)],
             gridOffset)

\* One iteration, given the last sample of its paxel.
divideScan(d, gridOffset, currentPaxelEndSample) ==
    dividePaxel(d, gridOffset, currentPaxelEndSample,
                paxelScan(d.coords, d.coordsIter, currentPaxelEndSample))

divideLoop(d, gridOffset) ==
    IF d.coordsIter > Len(d.coords) \/ d.ub THEN d
    ELSE divideScan(d, gridOffset,
                    (((d.currentRelativePaxel + 1) * kSamplesPerPaxel)
                     - gridOffset - 1) % U32)

\* What divideIntoPaxelGrid leaves behind: d is the state after the loop.
divideResult(d, firstPaxelStartTimeSamples, lastPaxelEndTimeSamples) ==
    [coords |-> d.coords,
     controlledPhaseIterators |-> d.controlledPhaseIterators,
     interpolated |-> d.interpolated,
     returnPoints |-> d.returnPoints,
     firstPaxelIndex |-> firstPaxelStartTimeSamples \div kSamplesPerPaxel,
     lastPaxelIndex |-> lastPaxelEndTimeSamples \div kSamplesPerPaxel,
     ok |-> d.ok, ub |-> d.ub]

\* The part after the first silent point: the last silent point and the loop.
divideFrom(cs, anchors, endSample, firstPaxelStartTimeSamples, lastPaxelEndTimeSamples, gridOffset) ==
    divideResult(
        divideLoop(
            [coords |->
                IF endSample # lastPaxelEndTimeSamples
                THEN Append(cs, silentPoint(Back(cs),
                                            UAdd(Back(cs).timeSamples, 1)))
                ELSE cs,
             controlledPhaseIterators |-> anchors,
             interpolated |-> <<>>,
             coordsIter |-> 1, currentRelativePaxel |-> 0,
             returnPoints |-> <<>>, ok |-> TRUE, ub |-> FALSE],
            gridOffset),
        firstPaxelStartTimeSamples, lastPaxelEndTimeSamples)

\* The part after firstPaxelStartTimeSamples is computed.
divideAt(cs, anchors, startSample, endSample, firstPaxelStartTimeSamples) ==
    divideFrom(
        IF startSample # firstPaxelStartTimeSamples
        THEN <<silentPoint(cs[1], 0)>> \o cs ELSE cs,
        IF startSample # firstPaxelStartTimeSamples
        THEN [i \in 1..Len(anchors) |-> anchors[i] + 1] ELSE anchors,
        endSample, firstPaxelStartTimeSamples,
        UAdd(USub(endSample, endSample % kSamplesPerPaxel),
             kSamplesPerPaxel - 1),
        USub(startSample, firstPaxelStartTimeSamples))

divideIntoPaxelGrid(cs, anchors, startSample, endSample) ==
    divideAt(cs, anchors, startSample, endSample,
             USub(startSample, startSample % kSamplesPerPaxel))


(***************************************************************************)
(* paxel_generator.cpp: precomputePaxel and renderSinglePaxelAudio         *)
(***************************************************************************)
kMaxSamplePaxelInt == 8388607

PaxelSampleSpecification(cycleAccumulator, amplitude) ==
    [cycleAccumulator |-> cycleAccumulator, amplitude |-> amplitude]

\* The assertions of the PaxelSampleSpecification constructor.
PaxelSampleSpecificationInvariant(spec) ==
    /\ DGe(spec.cycleAccumulator, DInt(0))
    /\ DGe(spec.amplitude, DInt(-1)) /\ DLe(spec.amplitude, DInt(1))

\* Number of iterations of the for loop of stage i.
stageLength(points, i) ==
    LET fillToSampleIndex == IF i < Len(points) THEN points[i + 1].timeSamples
                             ELSE kSamplesPerPaxel
    IN  USub(fillToSampleIndex, points[i].timeSamples)

RECURSIVE specificationCount(_, _)
specificationCount(points, i) ==
    IF i = 0 THEN 0
    ELSE specificationCount(points, i - 1) + stageLength(points, i)

\* The specifications of stage i; at most limit of them are listed.
stageSpecifications(points, i, limit) ==
    [k \in 1..Min2(stageLength(points, i), limit) |->
        PaxelSampleSpecification(
            computeCycleAccumulator(points[i].cycleAccumulator,
                                    points[i].frequency,
                                    points[i].frequencyRate, k - 1),
            DAdd(points[i].amplitude,
                 DMul(points[i].amplitudeRate, DInt(k - 1))))]

\* The specifications of stages 1..i, cut off after limit of them.
RECURSIVE precomputeUpTo(_, _, _)
\* The specifications of stage i appended to those before it.
precomputeStage(points, i, limit, before) ==
    before \o stageSpecifications(points, i, limit - Len(before))

precomputeUpTo(points, i, limit) ==
    IF i = 0 THEN <<>>
    ELSE precomputeStage(points, i, limit, precomputeUpTo(points, i - 1, limit))

\* precomputePaxel(coords).paxelSampleSpecifications, listed up to one more
\* than a paxel holds.
precomputePaxel(points) ==
    precomputeUpTo(points, Len(points), kSamplesPerPaxel + 1)

\* One output sample: sin(cycleAccumulator) * amplitude * kMaxSamplePaxelInt
\* converted to SamplePaxelInt.  The sine is exact at the quarter turns and
\* is left uninterpreted elsewhere.
exactSample(v) ==
    [exact |-> TRUE, value |-> v, phase |-> DInt(0), amplitude |-> DInt(0)]

\* A sample whose value the model leaves uninterpreted.
inexactSample(phase, amplitude) ==
    [exact |-> FALSE, value |-> 0, phase |-> phase, amplitude |-> amplitude]

renderAtPhase(phase, amplitude) ==
    IF IsNaN(phase) \/ ~IsFinite(amplitude) THEN inexactSample(phase, amplitude)
    ELSE IF amplitude = DInt(0) \/ phase = DInt(0) \/ phase = PI
    THEN exactSample(0)
    ELSE IF phase = HALF_PI
    THEN exactSample(Trunc(DMul(amplitude, DInt(kMaxSamplePaxelInt))))
    ELSE IF phase = DAdd(PI, HALF_PI)
    THEN exactSample(Trunc(DNeg(DMul(amplitude, DInt(kMaxSamplePaxelInt)))))
    ELSE inexactSample(phase, amplitude)

renderSample(spec) ==
    renderAtPhase(phaseMod(spec.cycleAccumulator, 0), spec.amplitude)

zeroSample == exactSample(0)

\* The samples of a paxel, given its specifications.
renderSpecifications(specs) ==
    [s \in 1..kSamplesPerPaxel |->
        IF s <= Len(specs) THEN renderSample(specs[s]) ELSE zeroSample]

\* renderSinglePaxelAudio: kSamplesPerPaxel zero samples overwritten from the
\* front by the rendered specifications.
renderSinglePaxelAudio(points) == renderSpecifications(precomputePaxel(points))

\* std::transform writes past the end of samples when there are more
\* specifications than samples in a paxel.
renderOverflows(paxelPoints) ==
    \E k \in 1..Len(paxelPoints) :
        specificationCount(paxelPoints[k], Len(paxelPoints[k])) > kSamplesPerPaxel

\* The constructor assertions of the specifications precomputePaxel builds.
renderAsserts(paxelPoints) ==
    \A k \in 1..Len(paxelPoints) :
        \A spec \in Elements(precomputePaxel(paxelPoints[k])) :
            PaxelSampleSpecificationInvariant(spec)

RECURSIVE Flatten(_, _)
Flatten(seqs, k) == IF k = 0 THEN <<>> ELSE Flatten(seqs, k - 1) \o seqs[k]

\* PaxelGenerator::renderAudio
renderAudio(paxelPoints) ==
    Flatten([k \in 1..Len(paxelPoints) |->
                renderSinglePaxelAudio(paxelPoints[k])],
            Len(paxelPoints))


(***************************************************************************)
(* The inputs: PartialEnvelopes values the type constructors accept.       *)
(***************************************************************************)
\* A time of k ticks, in seconds.
Tick(k) == Rat(k, TicksPerSample * kSampleRate)

\* Times of phase coordinates: below one sample, two in one sample, and
\* whole samples up to MaxEndSamples.
PhaseTicks ==
    {1, TicksPerSample, TicksPerSample + 1}
        \cup {TicksPerSample * k : k \in {2, 3, 4, MaxEndSamples}}

\* Times of envelope segments: none, below one sample, one and two samples.
SegmentTicks == {0, 1, TicksPerSample, 2 * TicksPerSample}

PhaseTargets == {ZERO_PI, HALF_PI, TWO_PI}

LaterPhaseCoordinates(t) ==
    {PhaseCoordinate(Tick(t), v) : v \in PhaseTargets}
        \cup {NaturalPhaseCoordinate(Tick(t))}

FirstPhaseCoordinates == {PhaseCoordinate(Tick(0), v) : v \in PhaseTargets}

\* The invariants of PhaseCoordinates hold by construction: two or three
\* coordinates, the first controlled at time 0, times strictly ascending.
TwoPhaseCoordinates ==
    {<<a, b>> : a \in FirstPhaseCoordinates,
                b \in UNION {LaterPhaseCoordinates(t) : t \in PhaseTicks}}

ThreePhaseCoordinates ==
    UNION {{<<a, b, c>> : a \in FirstPhaseCoordinates,
                          b \in LaterPhaseCoordinates(t[1]),
                          c \in LaterPhaseCoordinates(t[2])} :
           t \in {u \in PhaseTicks \X PhaseTicks : u[1] < u[2]}}

\* A partial from phase 0 to a controlled or a natural end.
PlainPhaseCoordinates ==
    {<<PhaseCoordinate(Tick(0), ZERO_PI), b>> :
        b \in UNION {{PhaseCoordinate(Tick(t), ZERO_PI),
                      NaturalPhaseCoordinate(Tick(t))} : t \in PhaseTicks}}

SeqsOf(S, n) == [1..n -> S]

\* Envelopes of up to maxLevels levels over the given level values; the
\* invariants of Envelope hold by construction.
Envelopes(levelValues, maxLevels) ==
    UNION {{Envelope(l, [i \in 1..(n - 1) |-> Tick(t[i])]) :
               l \in SeqsOf(levelValues, n),
               t \in SeqsOf(SegmentTicks, n - 1)} : n \in 1..maxLevels}

PartialEnvelopes(amplitudeEnvelope, frequencyEnvelope, coordinates) ==
    [amplitudeEnvelope |-> amplitudeEnvelope,
     frequencyEnvelope |-> frequencyEnvelope,
     phaseCoordinates |-> coordinates]

ConstantAmplitude == Envelope(<<DInt(1)>>, <<>>)

AmplitudeFade == Envelope(<<DInt(1), DInt(0)>>, <<Tick(TicksPerSample + 1)>>)

ConstantFrequency == Envelope(<<DInt(1)>>, <<>>)

FrequencyRamp == Envelope(<<DInt(1), DInt(2)>>, <<Tick(3 * TicksPerSample)>>)

(***************************************************************************)
(* The state: the arguments of the constructor, the fields of              *)
(* PhysicalEnvelopeGenerator, the value generate() returns, the record of  *)
(* the calls of interpolate, the buffers of PaxelGenerator, the position   *)
(* in generate() / renderAudio() and the build.                            *)
(*                                                                         *)
(* build: assertions are compiled in unless NDEBUG is defined.  The two    *)
(* builds behave alike until an assertion is false, so the build is        *)
(* resolved there: "any" becomes "release" when execution continues past   *)
(* a false assertion, and the debug build stops at pc = "aborted".         *)
(***************************************************************************)
VARIABLES partialEnvelopes, startTimeSeconds,
          frequencyTimes_, frequencyLevels_, amplitudeTimes_, amplitudeLevels_,
          endTimeSeconds_, startSample_, endSample_,
          firstPaxelIndex_, lastPaxelIndex_,
          physicalFrequencyCoords_, physicalAmplitudeCoords_,
          physicalPhaseCoords_, coords, controlledPhaseIterators,
          physicalPartialEnvelope, interpolated,
          paxelSpecifications, samples, pc, build,
          sourcePhase, targetPhase, compensation,
          partialsAudio, autoNormalize, summedAudio, renderedPaxels,
          call, arguments, object,
          sweep, pcmData, generation, previousEnvelope

inputVars == <<partialEnvelopes, startTimeSeconds>>

trimVars == <<frequencyTimes_, frequencyLevels_, amplitudeTimes_,
              amplitudeLevels_, endTimeSeconds_, startSample_>>

coordVars == <<physicalFrequencyCoords_, physicalAmplitudeCoords_,
               physicalPhaseCoords_>>

gridVars == <<endSample_, firstPaxelIndex_, lastPaxelIndex_,
              physicalPartialEnvelope, interpolated>>

renderVars == <<paxelSpecifications, samples>>

\* The arguments and the result of a call of coherenceCompensation, the
\* buffers of the mixer, the paxels rendered so far, and the arguments and
\* the result of a constructor of a logical type.
\* The local variables of the loop of populateEnvelope, the bytes
\* convertSamplesToPCM returns, the number of the current call of generate()
\* on the generator, and what the call before it returned.
runVars == <<sweep, pcmData, generation, previousEnvelope>>

helperVars == <<sourcePhase, targetPhase, compensation,
                partialsAudio, autoNormalize, summedAudio, renderedPaxels,
                call, arguments, object, runVars>>

vars == <<inputVars, trimVars, coordVars, coords, controlledPhaseIterators,
          gridVars, renderVars, pc, build, helperVars>>

\* No helper function has been called on its own.
NoCalls ==
    /\ sourcePhase = DInt(0)
    /\ targetPhase = DInt(0)
    /\ compensation = DInt(0)
    /\ partialsAudio = <<>>
    /\ autoNormalize = TRUE
    /\ summedAudio = <<>>
    /\ renderedPaxels = {}
    /\ call = "generate"
    /\ arguments = <<>>
    /\ object = <<>>
    /\ sweep = <<>>
    /\ pcmData = <<>>
    /\ generation = 1
    /\ previousEnvelope = <<>>

\* No PhysicalPartialEnvelope has been returned yet.
NoEnvelope ==
    [paxelPoints |-> <<>>, firstPaxelIndex |-> 0,
     firstSampleFraction |-> DInt(0), lastSampleFraction |-> DInt(0)]

\* The constructor PhysicalEnvelopeGenerator(partialEnvelopes, startTimeSeconds).
\* endSample_, firstPaxelIndex_ and lastPaxelIndex_ are not initialised by
\* it; they are written before they are read.
InitFrom(amplitudeEnvelope, frequencyEnvelope, coordinates, startTicks) ==
    /\ partialEnvelopes =
           PartialEnvelopes(amplitudeEnvelope, frequencyEnvelope, coordinates)
    /\ startTimeSeconds = Tick(startTicks)
    /\ frequencyTimes_ = frequencyEnvelope.timesSeconds
    /\ frequencyLevels_ = frequencyEnvelope.levels
    /\ amplitudeTimes_ = amplitudeEnvelope.timesSeconds
    /\ amplitudeLevels_ = amplitudeEnvelope.levels
    /\ endTimeSeconds_ = Back(coordinates).timeSeconds
    /\ startSample_ = secondsToSamples(Tick(startTicks))
    /\ endSample_ = 0
    /\ firstPaxelIndex_ = 0
    /\ lastPaxelIndex_ = 0
    /\ physicalFrequencyCoords_ = <<>>
    /\ physicalAmplitudeCoords_ = <<>>
    /\ physicalPhaseCoords_ = <<>>
    /\ coords = <<>>
    /\ controlledPhaseIterators = <<>>
    /\ physicalPartialEnvelope = NoEnvelope
    /\ interpolated = <<>>
    /\ paxelSpecifications = <<>>
    /\ samples = <<>>
    /\ pc = "constructed"
    /\ build = "any"

\* The inputs come in four families: rich in phase coordinates, in amplitude
\* breakpoints, in frequency breakpoints, and in start times.
Init ==
    /\ NoCalls
    /\ \/ \E f \in {ConstantFrequency, FrequencyRamp},
             c \in TwoPhaseCoordinates \cup ThreePhaseCoordinates :
             InitFrom(ConstantAmplitude, f, c, 0)
       \/ \E a \in Envelopes({DInt(0), DInt(1)}, 3) \cup Envelopes({DInt(-1), DInt(1)}, 2),
             c \in PlainPhaseCoordinates :
             InitFrom(a, ConstantFrequency, c, 0)
       \/ \E f \in Envelopes({DInt(1), DInt(2)}, 3), c \in PlainPhaseCoordinates :
             InitFrom(ConstantAmplitude, f, c, 0)
       \/ \E a \in {ConstantAmplitude, AmplitudeFade},
             f \in {ConstantFrequency, FrequencyRamp},
             c \in PlainPhaseCoordinates, t \in 0..MaxStartTicks :
             InitFrom(a, f, c, t)

\* The process of the debug build stops at a false assertion.
Abort(ok) ==
    /\ ~ok
    /\ build = "any"
    /\ pc' = "aborted"
    /\ build' = build

\* Execution reaches the end of the step: every assertion held, or the
\* build has none.
Continue(ok, next) ==
    /\ pc' = next
    /\ build' = IF ok THEN build ELSE "release"

\* generate(): trimPartialEnvelope(amplitudeLevels_, amplitudeTimes_)
TrimAmplitude ==
    /\ pc = "constructed"
    /\ \E t \in {trimPartialEnvelope(amplitudeLevels_, amplitudeTimes_,
                                      endTimeSeconds_, 0)} :
           /\ amplitudeLevels_' = t.levels
           /\ amplitudeTimes_' = t.times
    /\ pc' = "trimmedAmplitude"
    /\ UNCHANGED <<helperVars, inputVars, frequencyTimes_, frequencyLevels_,
                   endTimeSeconds_, startSample_, coordVars, coords,
                   controlledPhaseIterators, gridVars, renderVars, build>>

\* generate(): trimPartialEnvelope(frequencyLevels_, frequencyTimes_)
TrimFrequency ==
    /\ pc = "trimmedAmplitude"
    /\ \E t \in {trimPartialEnvelope(frequencyLevels_, frequencyTimes_,
                                      endTimeSeconds_, 0)} :
           /\ frequencyLevels_' = t.levels
           /\ frequencyTimes_' = t.times
    /\ pc' = "trimmed"
    /\ UNCHANGED <<helperVars, inputVars, amplitudeTimes_, amplitudeLevels_,
                   endTimeSeconds_, startSample_, coordVars, coords,
                   controlledPhaseIterators, gridVars, renderVars, build>>

\* generate(): populatePhysicalPhaseCoords(*phaseCoordinates_, physicalPhaseCoords_)
PopulatePhysicalPhaseCoords ==
    /\ pc = "trimmed"
    /\ \E c \in {populatePhysicalPhaseCoords(partialEnvelopes.phaseCoordinates)} :
       \E ok \in {\A i \in 1..Len(c) : PhysicalPhaseCoordinateInvariant(c[i])} :
           \/ /\ Continue(ok, "phaseCoords")
              /\ physicalPhaseCoords_' = physicalPhaseCoords_ \o c
           \/ /\ Abort(ok)
              /\ UNCHANGED physicalPhaseCoords_
    /\ UNCHANGED <<helperVars, inputVars, trimVars, physicalFrequencyCoords_,
                   physicalAmplitudeCoords_, coords, controlledPhaseIterators,
                   gridVars, renderVars>>

\* generate(): populatePhysicalAmplitudeCoords(...), which appends to the
\* list.  Its assertions hold of every trimmed envelope and an empty list.
PopulatePhysicalAmplitudeCoords ==
    /\ pc = "phaseCoords"
    /\ \E c \in {physicalAmplitudeCoords_ \o
                     populatePhysicalAmplitudeCoords(
                         amplitudeLevels_, amplitudeTimes_,
                         Back(physicalPhaseCoords_).timeSamples)} :
       \E ok \in {/\ populatePhysicalAmplitudeCoordsAsserts(
                         amplitudeLevels_, amplitudeTimes_, physicalAmplitudeCoords_,
                         Back(physicalPhaseCoords_).timeSamples)
                  /\ Len(c) = Len(amplitudeLevels_)
                  /\ Back(c).timeSamples = Back(physicalPhaseCoords_).timeSamples} :
           \/ /\ Continue(ok, "amplitudeCoords")
              /\ physicalAmplitudeCoords_' = c
           \/ /\ Abort(ok)
              /\ UNCHANGED physicalAmplitudeCoords_
    /\ UNCHANGED <<helperVars, inputVars, trimVars, physicalFrequencyCoords_,
                   physicalPhaseCoords_, coords, controlledPhaseIterators,
                   gridVars, renderVars>>

\* generate(): populatePhysicalFrequencyCoords(...), which appends to the
\* list.  Its assertions hold of every trimmed envelope and an empty list.
PopulatePhysicalFrequencyCoords ==
    /\ pc = "amplitudeCoords"
    /\ \E c \in {physicalFrequencyCoords_ \o
                     populatePhysicalFrequencyCoords(
                         frequencyLevels_, frequencyTimes_,
                         Back(physicalPhaseCoords_).timeSamples)} :
       \E ok \in {/\ populatePhysicalFrequencyCoordsAsserts(
                         frequencyLevels_, frequencyTimes_, physicalFrequencyCoords_,
                         Back(physicalPhaseCoords_).timeSamples)
                  /\ Len(c) = Len(frequencyLevels_)
                  /\ Back(c).timeSamples = Back(physicalPhaseCoords_).timeSamples} :
           \/ /\ Continue(ok, "frequencyCoords")
              /\ physicalFrequencyCoords_' = c
           \/ /\ Abort(ok)
              /\ UNCHANGED physicalFrequencyCoords_
    /\ UNCHANGED <<helperVars, inputVars, trimVars, physicalAmplitudeCoords_,
                   physicalPhaseCoords_, coords, controlledPhaseIterators,
                   gridVars, renderVars>>


\* generate(): populateEnvelope(), which appends the points to coords and
\* the anchors to controlledPhaseIterators.
PopulateEnvelope ==
    /\ pc = "frequencyCoords"
    /\ \E r \in {populateEnvelope(physicalFrequencyCoords_,
                                   physicalAmplitudeCoords_,
                                   physicalPhaseCoords_)} :
       \E ok \in {/\ populateEnvelopeAsserts(physicalFrequencyCoords_,
                                             physicalAmplitudeCoords_,
                                             physicalPhaseCoords_, r)
                  /\ (coords \o r.coords)[1].timeSamples = 0} :
           \/ /\ Continue(ok, "populated")
              /\ coords' = coords \o r.coords
              /\ controlledPhaseIterators' =
                     controlledPhaseIterators \o
                         [i \in 1..Len(r.controlledPhaseIterators) |->
                             r.controlledPhaseIterators[i] + Len(coords)]
              /\ endSample_' = UAdd(Back(r.coords).timeSamples, startSample_)
           \/ /\ Abort(ok)
              /\ UNCHANGED <<coords, controlledPhaseIterators, endSample_>>
    /\ UNCHANGED <<helperVars, inputVars, trimVars, coordVars, firstPaxelIndex_,
                   lastPaxelIndex_, physicalPartialEnvelope, interpolated,
                   renderVars>>

\* generate(): interpolateControlledPhasePoints()
InterpolateControlledPhasePoints ==
    /\ pc = "populated"
    /\ \E r \in {interpolateControlledPhasePoints(
                      coords, controlledPhaseIterators, physicalPhaseCoords_)} :
       \E ok \in {/\ interpolateControlledPhasePointsPrecondition(
                          coords, controlledPhaseIterators,
                          partialEnvelopes.phaseCoordinates,
                          physicalPhaseCoords_)
                   /\ r.ok} :
           \/ /\ Continue(ok, "compensated")
              /\ coords' = r.coords
           \/ /\ Abort(ok)
              /\ UNCHANGED coords
    /\ UNCHANGED <<helperVars, inputVars, trimVars, coordVars, controlledPhaseIterators,
                   gridVars, renderVars>>

\* The sample fractions generate() computes from the phase coordinates.
firstSampleFraction(coordinates) ==
    LET timePerSample == DDiv(DInt(1), DInt(kSamplesPerPaxel))
    IN  DSub(DInt(1),
             DDiv(Fmod(coordinates[1].timeSeconds, timePerSample), timePerSample))

lastSampleFraction(coordinates) ==
    LET timePerSample == DDiv(DInt(1), DInt(kSamplesPerPaxel))
    IN  DDiv(Fmod(Back(coordinates).timeSeconds, timePerSample), timePerSample)

\* The PhysicalPartialEnvelope generate() returns.
returnPartialEnvelope(points, firstPaxelIndex, coordinates) ==
    [paxelPoints |-> points,
     firstPaxelIndex |-> firstPaxelIndex,
     firstSampleFraction |-> firstSampleFraction(coordinates),
     lastSampleFraction |-> lastSampleFraction(coordinates)]

\* What generate() may return after undefined behaviour in
\* divideIntoPaxelGrid: no paxel, the one point copied so far, or that point
\* followed by whatever the stray iterator read.
UndefinedPaxelPoints(cs) ==
    {<<>>, <<<<cs[1]>>>>,
     <<<<cs[1], [cs[1] EXCEPT !.timeSamples = U32 - 1,
                              !.cycleAccumulator = DNaN]>>>>}

\* generate(): divideIntoPaxelGrid() and the construction of the returned
\* PhysicalPartialEnvelope.
DivideIntoPaxelGrid ==
    /\ pc = "compensated"
    /\ \E r \in {divideIntoPaxelGrid(coords, controlledPhaseIterators,
                                      startSample_, endSample_)} :
           /\ firstPaxelIndex_' = r.firstPaxelIndex
           /\ lastPaxelIndex_' = r.lastPaxelIndex
           /\ \/ /\ ~r.ub
                 /\ Continue(r.ok, "generated")
                 /\ coords' = r.coords
                 /\ controlledPhaseIterators' = r.controlledPhaseIterators
                 /\ interpolated' = r.interpolated
                 /\ physicalPartialEnvelope' =
                        returnPartialEnvelope(r.returnPoints, r.firstPaxelIndex,
                                              partialEnvelopes.phaseCoordinates)
              \/ /\ ~r.ub
                 /\ Abort(r.ok)
                 /\ UNCHANGED <<coords, controlledPhaseIterators, interpolated,
                                physicalPartialEnvelope>>
              \/ /\ r.ub
                 /\ pc' = "crashed"
                 /\ UNCHANGED <<coords, controlledPhaseIterators, interpolated,
                                physicalPartialEnvelope, build>>
              \/ /\ r.ub
                 /\ pc' = "generated"
                 /\ \E points \in UndefinedPaxelPoints(r.coords) :
                        physicalPartialEnvelope' =
                            returnPartialEnvelope(
                                points, r.firstPaxelIndex,
                                partialEnvelopes.phaseCoordinates)
                 /\ coords' = r.coords
                 /\ UNCHANGED <<controlledPhaseIterators, interpolated, build>>
    /\ UNCHANGED <<helperVars, inputVars, trimVars, coordVars, endSample_, renderVars>>

\* PaxelGenerator(physicalPartialEnvelope).renderAudio()
RenderAudio ==
    /\ pc = "generated"
    /\ \E points \in {physicalPartialEnvelope.paxelPoints} :
       \E ok \in {renderAsserts(points)} :
           \/ /\ Continue(ok, "rendered")
              /\ paxelSpecifications' =
                     [k \in 1..Len(points) |-> precomputePaxel(points[k])]
              /\ samples' = renderAudio(points)
           \/ /\ Abort(ok)
              /\ UNCHANGED renderVars
           \/ /\ renderOverflows(points)
              /\ pc' = "crashed"
              /\ UNCHANGED <<renderVars, build>>
    /\ UNCHANGED <<helperVars, inputVars, trimVars, coordVars, coords,
                   controlledPhaseIterators, gridVars>>

Next ==
    \/ TrimAmplitude
    \/ TrimFrequency
    \/ PopulatePhysicalPhaseCoords
    \/ PopulatePhysicalAmplitudeCoords
    \/ PopulatePhysicalFrequencyCoords
    \/ PopulateEnvelope
    \/ InterpolateControlledPhasePoints
    \/ DivideIntoPaxelGrid
    \/ RenderAudio

Spec == Init /\ [][Next]_vars


(***************************************************************************)
(* generate() and renderAudio() for partials whose phase coordinates are   *)
(* all controlled, on whole samples, with targets at every eighth of a     *)
(* turn: the corrections of the compensation pass take both signs.         *)
(***************************************************************************)
CorrectionInit ==
    /\ NoCalls
    /\ \E t \in {u \in (1..MaxEndSamples) \X (1..MaxEndSamples) : u[1] <= u[2]},
          v \in (0..8) \X (0..8), startSamples \in 0..1 :
          InitFrom(ConstantAmplitude, ConstantFrequency,
                   IF t[1] = t[2]
                   THEN <<PhaseCoordinate(Tick(0), ZERO_PI),
                          PhaseCoordinate(Tick(TicksPerSample * t[1]), DInt(v[1]))>>
                   ELSE <<PhaseCoordinate(Tick(0), ZERO_PI),
                          PhaseCoordinate(Tick(TicksPerSample * t[1]), DInt(v[1])),
                          PhaseCoordinate(Tick(TicksPerSample * t[2]), DInt(v[2]))>>,
                   TicksPerSample * startSamples)

CorrectionSpec == CorrectionInit /\ [][Next]_vars


(***************************************************************************)
(* generate() a second time for the same PartialEnvelopes and start time:  *)
(* on the generator that has returned, whose fields keep what the first    *)
(* call left in them, or on a generator constructed anew.                  *)
(***************************************************************************)
\* The second call of generate() on the same PhysicalEnvelopeGenerator.
GenerateAgain ==
    /\ pc = "generated"
    /\ generation = 1
    /\ previousEnvelope = <<>>
    /\ generation' = 2
    /\ previousEnvelope' = <<physicalPartialEnvelope>>
    /\ pc' = "constructed"
    /\ UNCHANGED <<inputVars, trimVars, coordVars, coords, controlledPhaseIterators,
                   gridVars, renderVars, build, sweep, pcmData,
                   sourcePhase, targetPhase, compensation, partialsAudio,
                   autoNormalize, summedAudio, renderedPaxels, call, arguments,
                   object>>

\* PhysicalEnvelopeGenerator(partialEnvelopes, startTimeSeconds) once more:
\* the vectors are copied from the arguments and the lists are empty.
ConstructAgain ==
    /\ pc = "generated"
    /\ generation = 1
    /\ previousEnvelope = <<>>
    /\ previousEnvelope' = <<physicalPartialEnvelope>>
    /\ frequencyTimes_' = partialEnvelopes.frequencyEnvelope.timesSeconds
    /\ frequencyLevels_' = partialEnvelopes.frequencyEnvelope.levels
    /\ amplitudeTimes_' = partialEnvelopes.amplitudeEnvelope.timesSeconds
    /\ amplitudeLevels_' = partialEnvelopes.amplitudeEnvelope.levels
    /\ endTimeSeconds_' = Back(partialEnvelopes.phaseCoordinates).timeSeconds
    /\ startSample_' = secondsToSamples(startTimeSeconds)
    /\ endSample_' = 0
    /\ firstPaxelIndex_' = 0
    /\ lastPaxelIndex_' = 0
    /\ physicalFrequencyCoords_' = <<>>
    /\ physicalAmplitudeCoords_' = <<>>
    /\ physicalPhaseCoords_' = <<>>
    /\ coords' = <<>>
    /\ controlledPhaseIterators' = <<>>
    /\ physicalPartialEnvelope' = NoEnvelope
    /\ interpolated' = <<>>
    /\ pc' = "constructed"
    /\ UNCHANGED <<inputVars, renderVars, build, sweep, pcmData, generation,
                   sourcePhase, targetPhase, compensation, partialsAudio,
                   autoNormalize, summedAudio, renderedPaxels, call, arguments,
                   object>>

\* Partials with and without breakpoints, controlled and natural ends, on
\* and off the paxel grid.
AgainInit ==
    /\ NoCalls
    /\ \E a \in {ConstantAmplitude, AmplitudeFade},
          f \in {ConstantFrequency, FrequencyRamp},
          c \in PlainPhaseCoordinates, startSamples \in 0..1 :
          InitFrom(a, f, c, TicksPerSample * startSamples)

AgainSpec ==
    AgainInit /\ [][\/ TrimAmplitude
                    \/ TrimFrequency
                    \/ PopulatePhysicalPhaseCoords
                    \/ PopulatePhysicalAmplitudeCoords
                    \/ PopulatePhysicalFrequencyCoords
                    \/ PopulateEnvelope
                    \/ InterpolateControlledPhasePoints
                    \/ DivideIntoPaxelGrid
                    \/ GenerateAgain
                    \/ ConstructAgain]_vars


(***************************************************************************)
(* Rendering paxel by paxel, in any order: renderedPaxels holds the paxels *)
(* whose samples have been copied into the buffer.                         *)
(***************************************************************************)
\* std::memcpy with one sample too many, reaching into the next paxel.
memcpyOneTooMany(buffer, paxelCount, paxelSamples) ==
    [i \in 1..Len(buffer) |->
        IF i > kSamplesPerPaxel * paxelCount
           /\ i <= kSamplesPerPaxel * (paxelCount + 1) + 1
        THEN paxelSamples[((i - 1) % kSamplesPerPaxel) + 1]
        ELSE buffer[i]]

\* std::memcpy(samples.data() + kSamplesPerPaxel * paxelCount,
\*             paxelSamples.data(), kSamplesPerPaxel * sizeof(SamplePaxelInt))
memcpyPaxel(buffer, paxelCount, paxelSamples) ==
    [i \in 1..Len(buffer) |->
        IF i > kSamplesPerPaxel * paxelCount
           /\ i <= kSamplesPerPaxel * (paxelCount + 1)
        THEN paxelSamples[i - kSamplesPerPaxel * paxelCount]
        ELSE buffer[i]]

\* One pass of the loop of renderAudio, for a paxel nothing has rendered
\* yet.  The first pass finds the buffer resized to zeros.
RenderPaxel ==
    /\ pc \in {"generated", "rendering"}
    /\ \E points \in {physicalPartialEnvelope.paxelPoints} :
       \E k \in (1..Len(points)) \ renderedPaxels :
       \E ok \in {renderAsserts(<<points[k]>>)} :
           \/ /\ Continue(ok, IF renderedPaxels \cup {k} = 1..Len(points)
                              THEN "rendered" ELSE "rendering")
              /\ renderedPaxels' = renderedPaxels \cup {k}
              /\ samples' =
                     memcpyPaxel(IF pc = "generated"
                                 THEN [i \in 1..(kSamplesPerPaxel * Len(points)) |-> zeroSample]
                                 ELSE samples,
                                 k - 1, renderSinglePaxelAudio(points[k]))
           \/ /\ Abort(ok)
              /\ UNCHANGED <<samples, renderedPaxels>>
           \/ /\ renderOverflows(<<points[k]>>)
              /\ pc' = "crashed"
              /\ UNCHANGED <<samples, renderedPaxels, build>>
    /\ UNCHANGED <<runVars, sourcePhase, targetPhase, compensation, partialsAudio,
                   autoNormalize, summedAudio, call, arguments, object,
                   inputVars, trimVars, coordVars, coords,
                   controlledPhaseIterators, gridVars, paxelSpecifications>>

RenderSpec ==
    Init /\ [][\/ TrimAmplitude
               \/ TrimFrequency
               \/ PopulatePhysicalPhaseCoords
               \/ PopulatePhysicalAmplitudeCoords
               \/ PopulatePhysicalFrequencyCoords
               \/ PopulateEnvelope
               \/ InterpolateControlledPhasePoints
               \/ DivideIntoPaxelGrid
               \/ RenderPaxel]_vars


(***************************************************************************)
(* The trimmer on its own, with rounded arithmetic: envelopes whose times  *)
(* are doubles of at most three significant bits are trimmed to an end     *)
(* time of the same kind, and the result is trimmed again.                 *)
(***************************************************************************)
\* Seconds that fit a mantissa of three bits: 0 and 1/2 ... 7/4.
FloatSeconds == {Rat(m, 8) : m \in {0, 4, 5, 6, 7, 10, 14}}

\* Envelopes over FloatSeconds; as Envelope allows, there may be one time
\* more than there are gaps between the levels.
FloatEnvelopes ==
    UNION {{Envelope(l, t) : l \in SeqsOf({DInt(0), DInt(1)}, n),
                             t \in SeqsOf(FloatSeconds, n - 1)
                                      \cup SeqsOf(FloatSeconds, n)} :
           n \in 1..3}

\* The partial ends at a time of FloatSeconds after 0.
TrimInit ==
    /\ NoCalls
    /\ \E a \in FloatEnvelopes, t \in FloatSeconds \ {DInt(0)} :
           InitFrom(a, ConstantFrequency,
                    <<PhaseCoordinate(DInt(0), ZERO_PI), NaturalPhaseCoordinate(t)>>, 0)

\* trimPartialEnvelope(amplitudeLevels_, amplitudeTimes_) in double arithmetic
TrimRounded ==
    /\ pc = "constructed"
    /\ \E t \in {trimPartialEnvelope(amplitudeLevels_, amplitudeTimes_,
                                      endTimeSeconds_, MantissaBits)} :
           /\ amplitudeLevels_' = t.levels
           /\ amplitudeTimes_' = t.times
    /\ pc' = "trimmedOnce"
    /\ UNCHANGED <<helperVars, inputVars, frequencyTimes_, frequencyLevels_,
                   endTimeSeconds_, startSample_, coordVars, coords,
                   controlledPhaseIterators, gridVars, renderVars, build>>

\* trimPartialEnvelope applied to its own result
TrimAgain ==
    /\ pc = "trimmedOnce"
    /\ \E t \in {trimPartialEnvelope(amplitudeLevels_, amplitudeTimes_,
                                      endTimeSeconds_, MantissaBits)} :
           /\ amplitudeLevels_' = t.levels
           /\ amplitudeTimes_' = t.times
    /\ pc' = "trimmedTwice"
    /\ UNCHANGED <<helperVars, inputVars, frequencyTimes_, frequencyLevels_,
                   endTimeSeconds_, startSample_, coordVars, coords,
                   controlledPhaseIterators, gridVars, renderVars, build>>

TrimSpec == TrimInit /\ [][TrimRounded \/ TrimAgain]_vars


(***************************************************************************)
(* The mixer: the per-partial buffers are summed sample by sample into a   *)
(* buffer as long as the longest of them.                                  *)
(***************************************************************************)
kMaxSamplePaxelBundleInt == 2147483647

\* a + b of two int32_t in two's complement, for the builds whose addition
\* wraps.  The sums are formed without leaving 32 bits.
wrappingAdd(a, b) ==
    IF a > 0 /\ b > kMaxSamplePaxelBundleInt - a
    THEN ((a - kMaxSamplePaxelBundleInt) + (b - kMaxSamplePaxelBundleInt)) - 2
    ELSE IF a < 0 /\ b < (-kMaxSamplePaxelBundleInt - 1) - a
    THEN ((a + kMaxSamplePaxelBundleInt) + (b + kMaxSamplePaxelBundleInt)) + 2
    ELSE a + b

\* static_cast<uint32_t>(std::ceil(std::log(size) / std::log(2))) for the
\* sizes 1 .. 4, whose quotient of logarithms is exact.
scalingBits(size, normalize) ==
    IF ~normalize \/ size = 1 THEN 0 ELSE IF size = 2 THEN 1 ELSE 2

\* The result sized by the first partial alone.
lengthOfFirst(partials, k) == IF k = 0 THEN 0 ELSE Len(partials[1])

\* maxLength = std::max(maxLength, partial.size()) over the first k partials
RECURSIVE maxLength(_, _)
maxLength(partials, k) ==
    IF k = 0 THEN 0
    ELSE IF Len(partials[k]) > maxLength(partials, k - 1) THEN Len(partials[k])
    ELSE maxLength(partials, k - 1)

\* std::transform over one partial: sumToNowSample + (partialSample >>
\* scalingBits), the shift being arithmetic.
addPartial(sum, partial, bits) ==
    [j \in 1..Len(sum) |->
        IF j <= Len(partial) THEN wrappingAdd(sum[j], partial[j] \div (2 ^ bits))
        ELSE sum[j]]

\* The buffer after the first k partials have been added.
RECURSIVE mixFirst(_, _, _)
mixFirst(partials, k, bits) ==
    IF k = 0 THEN [j \in 1..maxLength(partials, Len(partials)) |-> 0]
    ELSE addPartial(mixFirst(partials, k - 1, bits), partials[k], bits)

mix(partials, normalize) ==
    mixFirst(partials, Len(partials), scalingBits(Len(partials), normalize))

\* Some addition of the mix leaves the range of int32_t: undefined behaviour
\* for the signed sample type.
RECURSIVE mixOverflows(_, _, _)
mixOverflows(partials, k, bits) ==
    /\ k > 0
    /\ \/ mixOverflows(partials, k - 1, bits)
       \/ \E j \in 1..Len(partials[k]) :
              LET a == mixFirst(partials, k - 1, bits)[j]
                  b == partials[k][j] \div (2 ^ bits)
              IN  wrappingAdd(a, b) # IF a > 0 /\ b > 0 THEN kMaxSamplePaxelBundleInt
                                      ELSE IF a < 0 /\ b < 0 THEN -kMaxSamplePaxelBundleInt - 1
                                      ELSE a + b

(***************************************************************************)
(* coherenceCompensation, the mixer and the constructors of the logical   *)
(* types on their own; call names the one a behaviour is about.  The       *)
(* phases are doubles of the model, in eighths of a turn; the buffers hold *)
(* samples of a partial (24 bits) and of a bundle of partials (32 bits).   *)
(***************************************************************************)
\* Phases from three turns below zero to three turns above it that a
\* mantissa of MantissaBits bits holds.
Phases ==
    {x \in {Rat(k, 8) : k \in -(24 * 8)..(24 * 8)} : Round(x, MantissaBits) = x}

\* Up to MaxPartials buffers of up to MaxBufferLength samples, each buffer
\* holding one value throughout.  The samples of a partial are its extremes
\* and silence; the first buffer may be the mix of a bundle of partials,
\* with the extremes of 32 bits.
MixerInputs ==
    LET Samples == {-kMaxSamplePaxelInt, 0, kMaxSamplePaxelInt}
        BundleSamples ==
            Samples \cup {-kMaxSamplePaxelBundleInt - 1, kMaxSamplePaxelBundleInt}
        Buffers(values) ==
            {[j \in 1..n |-> v] : n \in 0..MaxBufferLength, v \in values}
    IN  UNION {{<<first>> \o rest : first \in Buffers(BundleSamples),
                                     rest \in SeqsOf(Buffers(Samples), n - 1)} :
               n \in 1..MaxPartials}

\* The arguments of the constructors of the logical types: levels and
\* times of an envelope, time and value of a phase coordinate, and phase
\* coordinates in a vector, legal and illegal ones.
ConstructorArguments ==
    LET Levels == {DInt(-2), DInt(-1), DInt(0), Rat(1, 2), DInt(1), DInt(2)}
        Times == {DInt(-1), DInt(0), DInt(1)}
        Coordinates ==
            {PhaseCoordinate(t, ZERO_PI) : t \in {DInt(0), DInt(1), DInt(2)}}
            \cup {NaturalPhaseCoordinate(t) : t \in {DInt(0), DInt(1), DInt(2)}}
    IN  {[type |-> e, levels |-> l, times |-> t] :
             e \in {"FrequencyEnvelope", "AmplitudeEnvelope"},
             l \in UNION {SeqsOf(Levels, n) : n \in 0..2},
             t \in UNION {SeqsOf(Times, n) : n \in 0..1}}
        \cup {[type |-> "PhaseCoordinate", time |-> t, value |-> v] :
                 t \in Times,
                 v \in {DInt(-1), ZERO_PI, PI, TWO_PI, DInt(9)}}
        \cup {[type |-> "PhaseCoordinates", coordinates |-> c] :
                 c \in UNION {SeqsOf(Coordinates, n) : n \in 0..3}}

\* The assertions of the constructor that is called with args: those of
\* PhaseCoordinate(time, value), those of PhaseCoordinates, or those of
\* Envelope and of FrequencyEnvelope or AmplitudeEnvelope.  levels.size() - 1
\* is unsigned: without a level it is far above every size.
constructorAsserts(args) ==
    IF args.type = "PhaseCoordinate"
    THEN /\ DGe(args.time, DInt(0))
         /\ DGe(args.value, ZERO_PI) /\ DLe(args.value, TWO_PI)
    ELSE IF args.type = "PhaseCoordinates"
    THEN /\ Len(args.coordinates) >= 2
         /\ args.coordinates[1].timeSamples = 0
         /\ DEq(args.coordinates[1].timeSeconds, DInt(0))
         /\ ~args.coordinates[1].natural
         /\ \A i \in 1..(Len(args.coordinates) - 1) :
                ~DLe(args.coordinates[i + 1].timeSeconds,
                     args.coordinates[i].timeSeconds)
    ELSE /\ Len(args.levels) >= 1
         /\ Len(args.times) >= Len(args.levels) - 1
         /\ \A i \in 1..Len(args.times) : ~DLt(args.times[i], DInt(0))
         /\ \A i \in 1..Len(args.levels) :
                IF args.type = "FrequencyEnvelope"
                THEN DGt(args.levels[i], DInt(0))
                ELSE DGe(args.levels[i], DInt(-1)) /\ DLe(args.levels[i], DInt(1))

HelperInit ==
    /\ InitFrom(ConstantAmplitude, ConstantFrequency,
                <<PhaseCoordinate(DInt(0), ZERO_PI), NaturalPhaseCoordinate(DInt(1))>>, 0)
    /\ compensation = DInt(0)
    /\ summedAudio = <<>>
    /\ renderedPaxels = {}
    /\ object = <<>>
    /\ sweep = <<>>
    /\ pcmData = <<>>
    /\ generation = 1
    /\ previousEnvelope = <<>>
    /\ \/ /\ call = "coherenceCompensation"
          /\ sourcePhase \in Phases
          /\ targetPhase \in Phases
          /\ partialsAudio = <<>>
          /\ autoNormalize = TRUE
          /\ arguments = <<>>
       \/ /\ call = "mix"
          /\ sourcePhase = DInt(0)
          /\ targetPhase = DInt(0)
          /\ autoNormalize \in BOOLEAN
          /\ partialsAudio \in MixerInputs
          /\ arguments = <<>>
       \/ /\ call = "construct"
          /\ sourcePhase = DInt(0)
          /\ targetPhase = DInt(0)
          /\ autoNormalize = TRUE
          /\ partialsAudio = <<>>
          /\ arguments \in ConstructorArguments

\* compensation = coherenceCompensation(sourcePhase, targetPhase)
Compensate ==
    /\ pc = "constructed"
    /\ call = "coherenceCompensation"
    /\ compensation' = coherenceCompensation(sourcePhase, targetPhase, MantissaBits)
    /\ \/ Abort(coherenceCompensationAssert(sourcePhase, targetPhase, MantissaBits))
       \/ Continue(coherenceCompensationAssert(sourcePhase, targetPhase, MantissaBits), "returned")
    /\ UNCHANGED <<runVars, sourcePhase, targetPhase, partialsAudio, autoNormalize,
                   summedAudio, renderedPaxels, call, arguments, object,
                   inputVars, trimVars, coordVars, coords,
                   controlledPhaseIterators, gridVars, renderVars>>

\* summedAudio = the sum of partialsAudio.  When an addition overflows the
\* build either wraps or traps.
Mix ==
    /\ pc = "constructed"
    /\ call = "mix"
    /\ \/ /\ summedAudio' = mix(partialsAudio, autoNormalize)
          /\ pc' = "mixed"
       \/ /\ mixOverflows(partialsAudio, Len(partialsAudio),
                          scalingBits(Len(partialsAudio), autoNormalize))
          /\ summedAudio' = summedAudio
          /\ pc' = "crashed"
    /\ UNCHANGED <<runVars, sourcePhase, targetPhase, compensation, partialsAudio,
                   autoNormalize, renderedPaxels, call, arguments, object,
                   inputVars, trimVars, coordVars, coords,
                   controlledPhaseIterators, gridVars, renderVars, build>>

\* object = the logical type constructed from arguments.  The constructors
\* check their arguments with assert alone.
Construct ==
    /\ pc = "constructed"
    /\ call = "construct"
    /\ \/ /\ Continue(constructorAsserts(arguments), "returned")
          /\ object' = arguments
       \/ /\ Abort(constructorAsserts(arguments))
          /\ object' = object
    /\ UNCHANGED <<runVars, sourcePhase, targetPhase, compensation, partialsAudio,
                   autoNormalize, summedAudio, renderedPaxels, call, arguments,
                   inputVars, trimVars, coordVars, coords,
                   controlledPhaseIterators, gridVars, renderVars>>

(***************************************************************************)
(* WavWriter::convertSamplesToPCM(samples, AudioSampleType::kPaxelBundleInt) *)
(* applied to the result of the mixer.                                     *)
(***************************************************************************)
kPaxelBytesPerSample == 3

\* SamplePaxelInt scaledSample = samples[i] / 4: the quotient of int32_t
\* truncates towards zero.
scaledSample(sample) ==
    IF sample >= 0 THEN sample \div 4 ELSE (sample + 3) \div 4

\* assert(scaledSample >= -kMaxSamplePaxelInt && scaledSample <= kMaxSamplePaxelInt)
scaledSampleAssert(sample) ==
    /\ scaledSample(sample) >= -kMaxSamplePaxelInt
    /\ scaledSample(sample) <= kMaxSamplePaxelInt

\* std::memcpy(&pcmData[i * kPaxelBytesPerSample], &value, kPaxelBytesPerSample):
\* the kPaxelBytesPerSample low-order bytes of the two's complement int32_t,
\* least significant first.
memcpySample(value) ==
    [k \in 1..kPaxelBytesPerSample |-> (value \div (256 ^ (k - 1))) % 256]

convertSamplesToPCM(audio) ==
    Flatten([i \in 1..Len(audio) |-> memcpySample(scaledSample(audio[i]))],
            Len(audio))

\* assert(totalSamples > 0), the assertion on every scaled sample, and
\* assert(pcmData.size() == samples.size() * kPaxelBytesPerSample)
convertSamplesToPCMAsserts(audio) ==
    /\ Len(audio) > 0
    /\ \A i \in 1..Len(audio) : scaledSampleAssert(audio[i])
    /\ Len(convertSamplesToPCM(audio)) = Len(audio) * kPaxelBytesPerSample

\* pcmData = convertSamplesToPCM(summedAudio, AudioSampleType::kPaxelBundleInt)
ConvertSamplesToPCM ==
    /\ pc = "mixed"
    /\ call = "mix"
    /\ \/ /\ Continue(convertSamplesToPCMAsserts(summedAudio), "converted")
          /\ pcmData' = convertSamplesToPCM(summedAudio)
       \/ /\ Abort(convertSamplesToPCMAsserts(summedAudio))
          /\ pcmData' = pcmData
    /\ UNCHANGED <<sweep, generation, previousEnvelope, sourcePhase, targetPhase,
                   compensation, partialsAudio, autoNormalize, summedAudio,
                   renderedPaxels, call, arguments, object,
                   inputVars, trimVars, coordVars, coords,
                   controlledPhaseIterators, gridVars, renderVars>>

HelperSpec ==
    HelperInit /\ [][Compensate \/ Mix \/ ConvertSamplesToPCM \/ Construct]_vars


(***************************************************************************)
(* populateEnvelope, one iteration of its while loop at a time.            *)
(***************************************************************************)
\* A variant of the loop condition that stops one sample early.
populateEnvelopeStopsEarly(s, endTimeSamples) ==
    s.currentTimeSamples + 1 < endTimeSamples

\* while (currentTimeSamples < endTimeSamples)
populateEnvelopeContinues(s, endTimeSamples) ==
    s.currentTimeSamples < endTimeSamples

\* populateEnvelope(): the preconditions and the code before the loop
PopulateEnvelopeEnter ==
    /\ pc = "frequencyCoords"
    /\ \E ok \in {/\ physicalFrequencyCoords_[1].timeSamples
                         = physicalAmplitudeCoords_[1].timeSamples
                   /\ physicalAmplitudeCoords_[1].timeSamples
                         = physicalPhaseCoords_[1].timeSamples
                   /\ Back(physicalFrequencyCoords_).timeSamples
                         = Back(physicalAmplitudeCoords_).timeSamples
                   /\ Back(physicalAmplitudeCoords_).timeSamples
                         = Back(physicalPhaseCoords_).timeSamples} :
           \/ /\ Continue(ok, "sweeping")
              /\ sweep' = populateEnvelopeInit(physicalFrequencyCoords_,
                                               physicalAmplitudeCoords_)
           \/ /\ Abort(ok)
              /\ UNCHANGED sweep
    /\ UNCHANGED <<inputVars, trimVars, coordVars, coords, controlledPhaseIterators,
                   gridVars, renderVars, sourcePhase, targetPhase, compensation,
                   partialsAudio, autoNormalize, summedAudio, renderedPaxels,
                   call, arguments, object, pcmData, generation, previousEnvelope>>

\* The test of the loop condition and, when it is false, the code after the
\* loop: endSample_ and the postconditions.
PopulateEnvelopeWhile ==
    /\ pc = "sweeping"
    /\ \/ /\ populateEnvelopeContinues(sweep, Back(physicalPhaseCoords_).timeSamples)
          /\ pc' = "iterating"
          /\ UNCHANGED <<coords, controlledPhaseIterators, endSample_, build>>
       \/ /\ ~populateEnvelopeContinues(sweep, Back(physicalPhaseCoords_).timeSamples)
          /\ \E ok \in {populateEnvelopeAsserts(physicalFrequencyCoords_,
                                                physicalAmplitudeCoords_,
                                                physicalPhaseCoords_, sweep)} :
                 \/ /\ Continue(ok, "populated")
                    /\ coords' = sweep.coords
                    /\ controlledPhaseIterators' = sweep.controlledPhaseIterators
                    /\ endSample_' = UAdd(Back(sweep.coords).timeSamples, startSample_)
                 \/ /\ Abort(ok)
                    /\ UNCHANGED <<coords, controlledPhaseIterators, endSample_>>
    /\ UNCHANGED <<helperVars, inputVars, trimVars, coordVars, firstPaxelIndex_,
                   lastPaxelIndex_, physicalPartialEnvelope, interpolated,
                   renderVars>>

\* The body of the while loop.  Dereferencing an iterator that is past the
\* last coordinate of its list is undefined behaviour.
PopulateEnvelopeIterate ==
    /\ pc = "iterating"
    /\ \/ /\ sweep.nextFrequency \in 1..Len(physicalFrequencyCoords_)
          /\ sweep.nextAmplitude \in 1..Len(physicalAmplitudeCoords_)
          /\ sweep.phase \in 1..Len(physicalPhaseCoords_)
          /\ sweep' = populateEnvelopeStep(
                          sweep, physicalFrequencyCoords_, physicalAmplitudeCoords_,
                          physicalPhaseCoords_, Back(physicalPhaseCoords_).timeSamples)
          /\ pc' = "sweeping"
       \/ /\ \/ sweep.nextFrequency \notin 1..Len(physicalFrequencyCoords_)
             \/ sweep.nextAmplitude \notin 1..Len(physicalAmplitudeCoords_)
             \/ sweep.phase \notin 1..Len(physicalPhaseCoords_)
          /\ pc' = "crashed"
          /\ UNCHANGED sweep
    /\ UNCHANGED <<inputVars, trimVars, coordVars, coords, controlledPhaseIterators,
                   gridVars, renderVars, build, sourcePhase, targetPhase, compensation,
                   partialsAudio, autoNormalize, summedAudio, renderedPaxels,
                   call, arguments, object, pcmData, generation, previousEnvelope>>

\* The inputs of the sweep: amplitude and frequency envelopes of one or two
\* levels with every segment time, and two or three phase coordinates at
\* every combination of times, all controlled or all natural after the
\* first; the levels and the phase targets do not steer the loop.
SweepInit ==
    /\ NoCalls
    /\ \E a \in Envelopes({DInt(1)}, 2), f \in Envelopes({DInt(1)}, 2),
          t \in {u \in PhaseTicks \X PhaseTicks : u[1] <= u[2]},
          natural \in BOOLEAN :
          \E later \in {[k \in 1..2 |->
                           IF natural THEN NaturalPhaseCoordinate(Tick(t[k]))
                           ELSE PhaseCoordinate(Tick(t[k]), ZERO_PI)]} :
              InitFrom(a, f,
                       IF t[1] = t[2]
                       THEN <<PhaseCoordinate(Tick(0), ZERO_PI), later[1]>>
                       ELSE <<PhaseCoordinate(Tick(0), ZERO_PI), later[1], later[2]>>,
                       0)

\* The loop condition is tested whenever control is at it, and the body,
\* the only step there is at pc = "iterating", runs to its end.
SweepSpec ==
    /\ SweepInit
    /\ [][\/ TrimAmplitude
          \/ TrimFrequency
          \/ PopulatePhysicalPhaseCoords
          \/ PopulatePhysicalAmplitudeCoords
          \/ PopulatePhysicalFrequencyCoords
          \/ PopulateEnvelopeEnter
          \/ PopulateEnvelopeWhile
          \/ PopulateEnvelopeIterate]_vars
    /\ WF_pc(PopulateEnvelopeWhile)
    /\ WF_pc(pc = "iterating" /\ pc' \in {"sweeping", "crashed"})


(***************************************************************************)
(* Properties.  hasCompensated: the fused sweep and the phase compensation *)
(* pass have run and slicing has not yet inserted points.                  *)
(***************************************************************************)
hasPopulated == pc = "populated"

hasCompensated == pc = "compensated"

\* The controlled phase coordinates.
Controlled == {i \in 1..Len(physicalPhaseCoords_) : ~physicalPhaseCoords_[i].natural}

\* The fused points at the sample index of phase coordinate i.
FusedAt(i) ==
    {j \in 1..Len(coords) :
        coords[j].timeSamples = physicalPhaseCoords_[i].timeSamples}

\* C1: after the sweep and the compensation pass, every controlled phase
\* coordinate with target phase p has a fused point at its sample index
\* whose cycleAccumulator satisfies phaseMod(cycleAccumulator) = p.
C1_PhaseCoherence ==
    hasCompensated =>
        \A i \in Controlled :
            \E j \in FusedAt(i) :
                DEq(phaseMod(coords[j].cycleAccumulator, 0),
                    physicalPhaseCoords_[i].phase)

\* The fused list is strictly increasing in sample index.
StrictlyIncreasing(cs) ==
    \A j \in 1..(Len(cs) - 1) : cs[j].timeSamples < cs[j + 1].timeSamples

\* C2: the fused list populateEnvelope produces is strictly increasing in
\* sample index, starts at sample 0 and ends at the end sample of the
\* partial, the sample of the last phase coordinate.
C2_FusedListStrictlyIncreasing ==
    hasPopulated =>
        /\ StrictlyIncreasing(coords)
        /\ coords[1].timeSamples = 0
        /\ Back(coords).timeSamples = Back(physicalPhaseCoords_).timeSamples

\* C3: when populateEnvelope finishes there is one anchor per phase
\* coordinate, in order, anchor i refers to the fused point at the sample of
\* phase coordinate i, the first anchor is the first fused point and the
\* last anchor is the last fused point.
C3_AnchorPerPhaseCoordinate ==
    hasPopulated =>
        /\ Len(controlledPhaseIterators) = Len(partialEnvelopes.phaseCoordinates)
        /\ \A i \in 1..Len(controlledPhaseIterators) :
              /\ i > 1 => controlledPhaseIterators[i - 1] < controlledPhaseIterators[i]
              /\ i <= Len(partialEnvelopes.phaseCoordinates) =>
                    coords[controlledPhaseIterators[i]].timeSamples =
                        secondsToSamples(
                            partialEnvelopes.phaseCoordinates[i].timeSeconds)
        /\ controlledPhaseIterators[1] = 1
        /\ Back(controlledPhaseIterators) = Len(coords)

\* C4: for consecutive fused points p, q of the list generate() builds
\* (before slicing), q.amplitude = p.amplitude + p.amplitudeRate * (q.sample
\* - p.sample).
C4_AmplitudeContinuity ==
    (hasPopulated \/ hasCompensated) =>
        \A j \in 1..(Len(coords) - 1) :
            DEq(coords[j + 1].amplitude,
                DAdd(coords[j].amplitude,
                     DMul(coords[j].amplitudeRate,
                          DInt(USub(coords[j + 1].timeSamples,
                                    coords[j].timeSamples)))))

\* q.frequency = p.frequency + p.frequencyRate * (q.sample - p.sample)
FrequencyContinuous(p, q) ==
    DEq(q.frequency,
        DAdd(p.frequency,
             DMul(p.frequencyRate,
                  DInt(USub(q.timeSamples, p.timeSamples)))))

CompensationStep == pc = "populated" /\ pc' = "compensated"

\* The frequency rate computeFrequencyRate gives interval j of the list cs.
RecomputedRate(cs, j) ==
    computeFrequencyRate(cs[j].cycleAccumulator, cs[j].frequency,
                         cs[j + 1].cycleAccumulator,
                         USub(cs[j + 1].timeSamples, cs[j].timeSamples))

C6_NoPhaseDiscontinuityAtPaxelBoundary ==
    \A e \in Elements(interpolated) :
        DEq(computeCycleAccumulator(
                e.point.cycleAccumulator, e.point.frequency,
                e.point.frequencyRate,
                USub(e.pointB.timeSamples, e.point.timeSamples)),
            e.pointB.cycleAccumulator)

\* Some fused point at sample timeSamples has the given amplitude.
AmplitudeAt(timeSamples, amplitude) ==
    \E j \in 1..Len(coords) :
        /\ coords[j].timeSamples = timeSamples
        /\ DEq(coords[j].amplitude, amplitude)

\* Some fused point at sample timeSamples has the given frequency.
FrequencyAt(timeSamples, frequency) ==
    \E j \in 1..Len(coords) :
        /\ coords[j].timeSamples = timeSamples
        /\ DEq(coords[j].frequency, frequency)

\* C7: every breakpoint of the trimmed amplitude envelope has a fused point
\* at its sample index with exactly its level, every breakpoint of the
\* trimmed frequency envelope one with exactly normalizeFrequency(level),
\* and the last fused point carries the last level of each envelope.
C7_EnvelopeHonouring ==
    hasPopulated =>
        /\ \A i \in 1..Len(amplitudeLevels_) :
              AmplitudeAt(physicalAmplitudeCoords_[i].timeSamples,
                          amplitudeLevels_[i])
        /\ \A i \in 1..Len(frequencyLevels_) :
              FrequencyAt(physicalFrequencyCoords_[i].timeSamples,
                          normalizeFrequency(frequencyLevels_[i]))
        /\ DEq(Back(coords).amplitude, Back(amplitudeLevels_))
        /\ DEq(Back(coords).frequency,
               normalizeFrequency(Back(frequencyLevels_)))

\* C8: the phase compensation pass changes only cycleAccumulator and
\* frequencyRate: the number and order of the fused points and every point's
\* sample index, amplitude, amplitudeRate and frequency are the same before
\* and after it.
C8_CompensationFrameCondition ==
    [][CompensationStep =>
           /\ Len(coords') = Len(coords)
           /\ \A j \in 1..Len(coords) :
                 /\ coords'[j].timeSamples = coords[j].timeSamples
                 /\ coords'[j].amplitude = coords[j].amplitude
                 /\ coords'[j].amplitudeRate = coords[j].amplitudeRate
                 /\ coords'[j].frequency = coords[j].frequency]_vars

\* Witness of C8: a compensated list of at least three points with a moving
\* amplitude and a moving frequency on which the pass has acted: an interval
\* has lost frequency continuity, so its rate has been rewritten.
C8_Witness ==
    /\ hasCompensated /\ build = "any" /\ Len(coords) >= 3
    /\ \E j \in 1..Len(coords) : DNe(coords[j].amplitudeRate, DInt(0))
    /\ \E j \in 1..Len(coords) : DNe(coords[j].frequency, coords[1].frequency)
    /\ \E j \in 1..(Len(coords) - 1) :
          /\ IsFinite(coords[j].frequencyRate)
          /\ ~FrequencyContinuous(coords[j], coords[j + 1])

\* The step of divideIntoPaxelGrid that returns paxel point lists.
SlicingStep == pc = "compensated" /\ pc' = "generated"

\* The paxel point lists generate() returned.
paxelPoints == physicalPartialEnvelope.paxelPoints

\* The fused point p, at absolute sample startSample_ + p.timeSamples, is in
\* the list of its paxel with its local sample index.
InItsPaxel(p, lists, firstPaxelIndex) ==
    /\ ((startSample_ + p.timeSamples) \div kSamplesPerPaxel) - firstPaxelIndex + 1
           \in 1..Len(lists)
    /\ [p EXCEPT !.timeSamples =
                     (startSample_ + p.timeSamples) % kSamplesPerPaxel]
           \in Elements(lists[((startSample_ + p.timeSamples)
                                   \div kSamplesPerPaxel) - firstPaxelIndex + 1])

\* C9: divideIntoPaxelGrid emits one point list for each paxel index in
\* [firstPaxelIndex, lastPaxelIndex] with lastPaxelIndex = endSample \div P;
\* the list of paxel k holds every fused point whose absolute sample is in
\* [k * P, (k + 1) * P), the one on the last sample of the paxel included,
\* at its local sample index, and no point outside that range.
C9_PaxelSlicingMembership ==
    [][SlicingStep =>
           /\ lastPaxelIndex_' = endSample_ \div kSamplesPerPaxel
           /\ Len(paxelPoints') = lastPaxelIndex_' - firstPaxelIndex_' + 1
           /\ \A j \in 1..Len(coords) :
                 InItsPaxel(coords[j], paxelPoints', firstPaxelIndex_')
           /\ \A k \in 1..Len(paxelPoints') :
                 \A p \in Elements(paxelPoints'[k]) :
                     p.timeSamples \in 0..(kSamplesPerPaxel - 1)]_vars

\* C10: every paxel point list starts at local sample 0, has strictly
\* increasing local sample indices of at most P - 1, and precomputePaxel
\* emits exactly P specifications for it.
C10_PaxelListCoversEverySample ==
    pc = "generated" =>
        \A k \in 1..Len(paxelPoints) :
            /\ Len(paxelPoints[k]) >= 1
            /\ paxelPoints[k][1].timeSamples = 0
            /\ StrictlyIncreasing(paxelPoints[k])
            /\ Back(paxelPoints[k]).timeSamples <= kSamplesPerPaxel - 1
            /\ specificationCount(paxelPoints[k], Len(paxelPoints[k]))
                   = kSamplesPerPaxel

\* C11: for a partial that starts at time 0 and lasts a whole number n of
\* paxels, the buffer renderAudio returns has exactly n * P samples.
C11_WholePaxelBufferLength ==
    (pc = "rendered" /\ startSample_ = 0) =>
        \A n \in 1..(MaxEndSamples \div kSamplesPerPaxel) :
            endTimeSeconds_ = DInt(n) => Len(samples) = n * kSamplesPerPaxel

\* The instantaneous amplitude and frequency s samples after the point p.
InstantaneousAmplitude(p, s) == DAdd(p.amplitude, DMul(p.amplitudeRate, DInt(s)))

InstantaneousFrequency(p, s) == DAdd(p.frequency, DMul(p.frequencyRate, DInt(s)))

\* C12: within every interval of the fused list generate() works on, the
\* phase compensation pass included, the instantaneous amplitude stays in
\* [-1, 1] and the instantaneous frequency stays >= 0 at every offset from
\* a point up to its successor.
C12_IntervalsStayInRange ==
    (hasCompensated \/ pc = "generated") =>
        \A j \in 1..(Len(coords) - 1) :
            \A s \in 0..USub(coords[j + 1].timeSamples, coords[j].timeSamples) :
                /\ DGe(InstantaneousAmplitude(coords[j], s), DInt(-1))
                /\ DLe(InstantaneousAmplitude(coords[j], s), DInt(1))
                /\ DGe(InstantaneousFrequency(coords[j], s), DInt(0))

\* C13: for every envelope that satisfies the Envelope invariants and every
\* end time T > 0, after trimPartialEnvelope there is one level more than
\* there are times, at least one level, and the times sum to T.
C13_TrimmerPostcondition ==
    pc = "trimmedOnce" =>
        /\ Len(amplitudeLevels_) = Len(amplitudeTimes_) + 1
        /\ Len(amplitudeLevels_) >= 1
        /\ DEq(Accumulate(amplitudeTimes_, Len(amplitudeTimes_), MantissaBits),
               endTimeSeconds_)

\* C14: trimPartialEnvelope applied a second time, with the same end time,
\* to the levels and times it produced leaves both vectors unchanged.
C14_TrimmingIdempotence ==
    [][TrimAgain => /\ amplitudeLevels_' = amplitudeLevels_
                    /\ amplitudeTimes_' = amplitudeTimes_]_vars


\* C15: for all phases x and y, coherenceCompensation(x, x) = 0,
\* coherenceCompensation(x, y) lies in [-pi, pi], and
\* phaseMod(x + coherenceCompensation(x, y)) = phaseMod(y).
C15_CoherenceCompensationLaws ==
    pc = "returned" =>
        /\ DEq(sourcePhase, targetPhase) => DEq(compensation, DInt(0))
        /\ coherenceInRange(compensation)
        /\ DEq(phaseMod(Round(DAdd(sourcePhase, compensation), MantissaBits), MantissaBits),
               phaseMod(targetPhase, MantissaBits))


\* The sum, in wrapping 32-bit addition, of sample j of the first k buffers
\* that have a sample j.
RECURSIVE SumAt(_, _, _)
SumAt(buffers, j, k) ==
    IF k = 0 THEN 0
    ELSE IF j <= Len(buffers[k]) THEN wrappingAdd(SumAt(buffers, j, k - 1), buffers[k][j])
    ELSE SumAt(buffers, j, k - 1)

PartialSamplesOnly ==
    \A i \in 1..Len(partialsAudio) :
        \A j \in 1..Len(partialsAudio[i]) :
            /\ partialsAudio[i][j] >= -kMaxSamplePaxelInt
            /\ partialsAudio[i][j] <= kMaxSamplePaxelInt

\* The buffers with every sample shifted right by bits.
Shifted(buffers, bits) ==
    [i \in 1..Len(buffers) |->
        [j \in 1..Len(buffers[i]) |-> buffers[i][j] \div (2 ^ bits)]]

\* C17: with auto-normalise enabled and N >= 1 partials whose samples all lie
\* in [-(2^23 - 1), 2^23 - 1], every partial sample is shifted right by
\* ceil(log2(N)) bits before summing (1 bit for N = 2), and every mixed
\* sample has an absolute value of at most 2^23 - 1.
C17_NormalisedMixStaysIn24Bits ==
    (pc = "mixed" /\ autoNormalize /\ PartialSamplesOnly) =>
        \E bits \in 0..2 :
            /\ 2 ^ bits >= Len(partialsAudio)
            /\ bits = 0 \/ 2 ^ (bits - 1) < Len(partialsAudio)
            /\ \A j \in 1..Len(summedAudio) :
                   /\ summedAudio[j] = SumAt(Shifted(partialsAudio, bits), j, Len(partialsAudio))
                   /\ summedAudio[j] <= kMaxSamplePaxelInt
                   /\ summedAudio[j] >= -kMaxSamplePaxelInt


\* C18: whatever the order in which the paxels of an envelope are rendered,
\* the P samples of every rendered paxel k are those of rendering the
\* paxels in index order, which depend on the point list of paxel k alone,
\* and the samples of the paxels still to render are untouched; so the
\* buffer of the finished rendering is the sequential one.
C18_RenderingOrderIndependence ==
    pc \in {"rendering", "rendered"} =>
        /\ Len(samples) = kSamplesPerPaxel * Len(paxelPoints)
        /\ \A k \in 1..Len(paxelPoints) :
               \A s \in 1..kSamplesPerPaxel :
                   samples[kSamplesPerPaxel * (k - 1) + s] =
                       IF k \in renderedPaxels
                       THEN renderAudio(paxelPoints)[kSamplesPerPaxel * (k - 1) + s]
                       ELSE zeroSample
        /\ pc = "rendered" => samples = renderAudio(paxelPoints)

\* The second paxel has been rendered before the first, and their samples
\* differ.
C18_Witness ==
    /\ pc = "rendering"
    /\ build = "any"
    /\ 2 \in renderedPaxels
    /\ 1 \notin renderedPaxels
    /\ renderSinglePaxelAudio(paxelPoints[1]) # renderSinglePaxelAudio(paxelPoints[2])
    /\ \E s \in 1..kSamplesPerPaxel : samples[kSamplesPerPaxel + s] # zeroSample


\* The values the claim calls legal for the logical type args describes.
LegalArguments(args) ==
    IF args.type = "FrequencyEnvelope"
    THEN \A i \in 1..Len(args.levels) : DGt(args.levels[i], DInt(0))
    ELSE IF args.type = "AmplitudeEnvelope"
    THEN \A i \in 1..Len(args.levels) :
             DGe(args.levels[i], DInt(-1)) /\ DLe(args.levels[i], DInt(1))
    ELSE IF args.type = "PhaseCoordinate"
    THEN DGe(args.value, ZERO_PI) /\ DLe(args.value, TWO_PI)
    ELSE /\ Len(args.coordinates) >= 2
         /\ \A i \in 1..(Len(args.coordinates) - 1) :
                DLt(args.coordinates[i].timeSeconds, args.coordinates[i + 1].timeSeconds)
         /\ DEq(args.coordinates[1].timeSeconds, DInt(0))
         /\ ~args.coordinates[1].natural

\* C19: constructing a logical envelope type with illegal values yields no
\* object: a FrequencyEnvelope with a non-positive level, an
\* AmplitudeEnvelope with a level outside [-1, 1], a controlled
\* PhaseCoordinate with a phase outside [0, 2 pi], and PhaseCoordinates with
\* fewer than 2 coordinates, non-ascending times, or a first coordinate that
\* is not at t = 0 or not controlled, are rejected.
C19_ConstructionTimeValidation ==
    (call = "construct" /\ pc = "returned") => LegalArguments(object)


\* C20: generate() reports firstPaxelIndex = floor(startSample / P), where
\* startSample = floor(t * sampleRate) for the start time t >= 0, and the
\* first real fused point of the partial is in the first paxel list, at the
\* local sample gridOffset = startSample - firstPaxelIndex * P; a partial
\* that starts at time 0 has firstPaxelIndex = 0.
C20_FirstPaxelIndexAndGridOffset ==
    [][SlicingStep =>
        /\ startSample_ = DMul(startTimeSeconds, DInt(kSampleRate)).n
                              \div DMul(startTimeSeconds, DInt(kSampleRate)).d
        /\ physicalPartialEnvelope'.firstPaxelIndex = startSample_ \div kSamplesPerPaxel
        /\ startTimeSeconds = DInt(0) => physicalPartialEnvelope'.firstPaxelIndex = 0
        /\ Len(physicalPartialEnvelope'.paxelPoints) >= 1
        /\ \E i \in 1..Len(physicalPartialEnvelope'.paxelPoints[1]) :
               physicalPartialEnvelope'.paxelPoints[1][i] =
                   [coords[1] EXCEPT !.timeSamples =
                        startSample_ - (startSample_ \div kSamplesPerPaxel)
                                           * kSamplesPerPaxel]]_vars


\* The fractional part of a time in samples.
SampleFraction(timeSeconds) == Fmod(DMul(timeSeconds, DInt(kSampleRate)), DInt(1))

\* C21: the PhysicalPartialEnvelope returned by generate() carries
\* firstSampleFraction = 1 - frac(t_start * sampleRate) and
\* lastSampleFraction = frac(t_end * sampleRate), where t_start is the
\* absolute start time passed to the generator and t_end the absolute end
\* time of the partial.
C21_SampleFractions ==
    pc = "generated" =>
        /\ physicalPartialEnvelope.firstSampleFraction =
               DSub(DInt(1), SampleFraction(startTimeSeconds))
        /\ physicalPartialEnvelope.lastSampleFraction =
               SampleFraction(DAdd(startTimeSeconds, endTimeSeconds_))


\* Scenario S3 at the sample rate of the model: an amplitude fade from 1 to 0
\* with its breakpoint at sample 1, inside the first paxel, in a partial of
\* constant frequency that starts at time 0 and lasts MaxEndSamples samples,
\* with the phase controlled to 0 at both ends.
ScenarioS3 ==
    /\ partialEnvelopes =
           PartialEnvelopes(
               Envelope(<<DInt(1), DInt(0)>>, <<Tick(TicksPerSample)>>),
               ConstantFrequency,
               <<PhaseCoordinate(Tick(0), ZERO_PI),
                 PhaseCoordinate(Tick(MaxEndSamples * TicksPerSample), ZERO_PI)>>)
    /\ startTimeSeconds = DInt(0)

\* The amplitude of the fused points does not increase from sample
\* timeSamples onward.
DecreasingFrom(timeSamples) ==
    \A j \in 1..(Len(coords) - 1) :
        coords[j].timeSamples >= timeSamples =>
            DGe(coords[j].amplitude, coords[j + 1].amplitude)

\* The last sample of the partial in the rendered output is 0.
LastOutputSampleIsZero ==
    /\ Len(samples) >= MaxEndSamples
    /\ samples[MaxEndSamples].exact
    /\ samples[MaxEndSamples].value = 0

\* C22: in scenario S3 the amplitude at the breakpoint sample is 1.0, the
\* amplitude is monotonically decreasing from the breakpoint onward, and the
\* last output sample of the partial is 0.
C22_ScenarioS3 ==
    ScenarioS3 =>
        /\ hasPopulated => (AmplitudeAt(1, DInt(1)) /\ DecreasingFrom(1))
        /\ pc = "rendered" => LastOutputSampleIsZero

\* C22 as the code has it: in scenario S3 the amplitude is 1.0 at sample 0
\* and 0.0 at the breakpoint sample, it never increases over the partial,
\* and the last output sample of the partial is 0.
C22_ScenarioS3_Amended ==
    ScenarioS3 =>
        /\ hasPopulated =>
              /\ AmplitudeAt(0, DInt(1))
              /\ AmplitudeAt(1, DInt(0))
              /\ DecreasingFrom(0)
        /\ pc = "rendered" => LastOutputSampleIsZero

C22_Witness ==
    /\ ScenarioS3
    /\ pc = "rendered"
    /\ build = "any"
    /\ LastOutputSampleIsZero
    /\ AmplitudeAt(1, DInt(0))


\* The correction at phase anchor k and the shift accumulated up to and
\* including anchor k, from the natural accumulators of the sweep.
RECURSIVE CumulativeShift(_)
Correction(k) ==
    IF physicalPhaseCoords_[k].natural THEN DInt(0)
    ELSE coherenceCompensation(
             DAdd(coords[controlledPhaseIterators[k]].cycleAccumulator,
                  CumulativeShift(k - 1)),
             physicalPhaseCoords_[k].phase, 0)

CumulativeShift(k) ==
    IF k = 1
    THEN IF physicalPhaseCoords_[1].natural THEN DInt(0)
         ELSE physicalPhaseCoords_[1].phase
    ELSE DAdd(CumulativeShift(k - 1), Correction(k))

\* The share of the correction at anchor k that the fused point j receives.
DistributedShift(k, j) ==
    DAdd(CumulativeShift(k - 1),
         DDiv(DMul(Correction(k),
                   DInt(coords[j].timeSamples
                            - coords[controlledPhaseIterators[k - 1]].timeSamples)),
              DInt(coords[controlledPhaseIterators[k]].timeSamples
                       - coords[controlledPhaseIterators[k - 1]].timeSamples)))

C24_AccumulatorRateConsistency ==
    hasCompensated =>
        \A j \in 1..(Len(coords) - 1) :
            DEq(computeCycleAccumulator(
                    coords[j].cycleAccumulator, coords[j].frequency,
                    coords[j].frequencyRate,
                    USub(coords[j + 1].timeSamples, coords[j].timeSamples)),
                coords[j + 1].cycleAccumulator)


\* The offset of the partial's first sample in its paxel.
gridOffset == startSample_ % kSamplesPerPaxel

\* A point of silence at the local sample timeSamples.
IsSilentPoint(p, timeSamples) ==
    /\ p.timeSamples = timeSamples
    /\ p.amplitude = DInt(0)
    /\ p.amplitudeRate = DInt(0)
    /\ p.frequency = DInt(0)
    /\ p.frequencyRate = DInt(0)

\* The samples of the output at the positions first..last are all 0.
SilentSamples(first, last) ==
    \A s \in first..last :
        /\ s \in 1..Len(samples)
        /\ samples[s] = zeroSample

\* C25: when the start sample is not on a paxel boundary, the first paxel
\* list begins with a silent point at local sample 0 followed by the first
\* real point at local sample gridOffset, and every rendered sample below
\* gridOffset is 0; when the end sample is not the last sample of its paxel,
\* the last paxel list holds a silent point one past the end and every
\* rendered sample after the end sample is 0.
C25_SilentPaddingOfBoundaryPaxels ==
    pc = "rendered" =>
        /\ gridOffset > 0 =>
              /\ Len(paxelPoints) >= 1
              /\ Len(paxelPoints[1]) >= 2
              /\ IsSilentPoint(paxelPoints[1][1], 0)
              /\ Len(coords) >= 2
              /\ paxelPoints[1][2] = [coords[2] EXCEPT !.timeSamples = gridOffset]
              /\ SilentSamples(1, gridOffset)
        /\ endSample_ % kSamplesPerPaxel # kSamplesPerPaxel - 1 =>
              /\ Len(paxelPoints) >= 1
              /\ \E i \in 1..Len(Back(paxelPoints)) :
                     IsSilentPoint(Back(paxelPoints)[i],
                                   (endSample_ % kSamplesPerPaxel) + 1)
              /\ Len(samples) = (lastPaxelIndex_ - firstPaxelIndex_ + 1) * kSamplesPerPaxel
              /\ SilentSamples(endSample_ - firstPaxelIndex_ * kSamplesPerPaxel + 2,
                               Len(samples))


\* The amplitude envelope the trimmer starts from, once the surplus times
\* are removed, and the start time of its segment m.
OriginalLevels == partialEnvelopes.amplitudeEnvelope.levels

OriginalTimes ==
    SubSeq(partialEnvelopes.amplitudeEnvelope.timesSeconds, 1,
           Min2(Len(partialEnvelopes.amplitudeEnvelope.timesSeconds),
                Len(OriginalLevels) - 1))

SegmentStart(m, mantissa) == Accumulate(OriginalTimes, m - 1, mantissa)

\* The last segment that does not lie wholly past the end time.
LastRemainingSegment(mantissa) ==
    CHOOSE m \in 1..Len(OriginalTimes) :
        /\ DLe(SegmentStart(m, mantissa), endTimeSeconds_)
        /\ \A k \in (m + 1)..Len(OriginalTimes) :
               DGt(SegmentStart(k, mantissa), endTimeSeconds_)

\* The envelope cut in segment m at the end time.
TruncatedAt(m, mantissa) ==
    /\ DGt(OriginalTimes[m], DInt(0))
    /\ amplitudeTimes_ =
           Append(SubSeq(OriginalTimes, 1, m - 1),
                  Round(DSub(endTimeSeconds_, SegmentStart(m, mantissa)), mantissa))
    /\ amplitudeLevels_ =
           Append(SubSeq(OriginalLevels, 1, m),
                  interpolatedLevel(
                      OriginalLevels[m], OriginalLevels[m + 1],
                      Round(DSub(endTimeSeconds_, SegmentStart(m, mantissa)), mantissa),
                      OriginalTimes[m], mantissa))

\* C26: when the total time S of the envelope exceeds the end time T,
\* trimPartialEnvelope drops every tail segment that lies wholly past T,
\* leaves the earlier levels and times unchanged, sets the time of the last
\* remaining segment to T minus the segment's start time, and sets its
\* terminal level to L_start + (L_end - L_start) * (T - S_start) /
\* originalSegmentTime, with originalSegmentTime > 0.
C26_TrimmerTruncation ==
    (/\ pc = "trimmedOnce"
     /\ DGt(Accumulate(OriginalTimes, Len(OriginalTimes), MantissaBits),
            endTimeSeconds_))
        => TruncatedAt(LastRemainingSegment(MantissaBits), MantissaBits)


\* The sample the next iteration of the sweep chooses.
NextTimeSamples ==
    Min3(physicalFrequencyCoords_[sweep.nextFrequency].timeSamples,
         physicalAmplitudeCoords_[sweep.nextAmplitude].timeSamples,
         physicalPhaseCoords_[sweep.phase].timeSamples)

\* In the body of the loop the three next-coordinate iterators refer to
\* existing coordinates and the sample chosen is not before the current one;
\* the loop is left with the current sample on the end sample.
SweepIsSafe ==
    /\ pc = "iterating" =>
          /\ sweep.nextFrequency \in 1..Len(physicalFrequencyCoords_)
          /\ sweep.nextAmplitude \in 1..Len(physicalAmplitudeCoords_)
          /\ sweep.phase \in 1..Len(physicalPhaseCoords_)
          /\ NextTimeSamples >= sweep.currentTimeSamples
    /\ pc = "populated" =>
          sweep.currentTimeSamples = Back(physicalPhaseCoords_).timeSamples

\* C27: for every trimmed PartialEnvelopes the loop of populateEnvelope
\* terminates, stopping exactly when the chosen next sample equals the end
\* sample of the partial; at every iteration the three next-coordinate
\* iterators refer to existing coordinates and the chosen next sample is not
\* smaller than the current sample.
C27_SweepTerminates ==
    /\ []SweepIsSafe
    /\ (pc = "sweeping") ~> (pc \in {"populated", "aborted"})

C27_Witness ==
    /\ pc = "populated"
    /\ build = "any"
    /\ Len(sweep.coords) >= 4
    /\ coords = sweep.coords
    /\ Back(coords).timeSamples = Back(physicalPhaseCoords_).timeSamples

\* The value of kPaxelBytesPerSample bytes read as a two's complement number,
\* least significant byte first.
RECURSIVE SignedValue(_, _)
SignedValue(bytes, k) ==
    IF k = 0 THEN 0
    ELSE IF k = Len(bytes)
    THEN (IF bytes[k] >= 128 THEN bytes[k] - 256 ELSE bytes[k]) * 256 ^ (k - 1)
             + SignedValue(bytes, k - 1)
    ELSE bytes[k] * 256 ^ (k - 1) + SignedValue(bytes, k - 1)

\* C28: for the sample type kPaxelBundleInt every 32-bit mixed sample x is
\* scaled to x / 4, the scaled value lies in the 24-bit range
\* [-(2^23 - 1), 2^23 - 1], and the three bytes written for it represent it
\* exactly, whatever value the mixed sample has.
C28_BundleSamplesFitThreeBytes ==
    (call = "mix" /\ pc \in {"converted", "aborted"}) =>
        \A i \in 1..Len(summedAudio) :
            /\ scaledSampleAssert(summedAudio[i])
            /\ pc = "converted" =>
                   SignedValue(SubSeq(pcmData,
                                      kPaxelBytesPerSample * (i - 1) + 1,
                                      kPaxelBytesPerSample * i),
                               kPaxelBytesPerSample)
                       = scaledSample(summedAudio[i])


\* C29: every PhysicalEnvelopePoint and PaxelSampleSpecification that
\* generate() and the rendering hold has cycleAccumulator >= 0: the fused
\* points after the sweep and after the compensation pass has added its
\* corrections, the points of the paxel lists divideIntoPaxelGrid builds,
\* and the per-sample specifications precomputePaxel computes.
C29_NonNegativeAccumulator ==
    /\ pc \in {"populated", "compensated", "generated", "rendered"} =>
           \A i \in 1..Len(coords) : DGe(coords[i].cycleAccumulator, DInt(0))
    /\ pc \in {"generated", "rendered"} =>
           \A k \in 1..Len(paxelPoints) :
               \A i \in 1..Len(paxelPoints[k]) :
                   DGe(paxelPoints[k][i].cycleAccumulator, DInt(0))
    /\ pc = "rendered" =>
           \A k \in 1..Len(paxelSpecifications) :
               \A spec \in Elements(paxelSpecifications[k]) :
                   DGe(spec.cycleAccumulator, DInt(0))


\* C30: a second generate() for the same PartialEnvelopes and start time, on
\* the same generator or on a fresh one, completes and returns what the
\* first returned: the same paxel point lists, firstPaxelIndex and sample
\* fractions.
C30_RepeatableGeneration ==
    Len(previousEnvelope) = 1 =>
        /\ pc \notin {"aborted", "crashed"}
        /\ pc = "generated" => physicalPartialEnvelope = previousEnvelope[1]

=============================================================================
